---------------------------- MODULE Spec2Model ----------------------------
(***************************************************************************)
(* Model of the lantz_drivers instrument drivers.                          *)
(*                                                                         *)
(* The drivers are declarations (command templates, mappings, limits,      *)
(* checks, discard sets) and a few hand written getters, limits resolvers  *)
(* and actions.  They are interpreted by the descriptor engine of section  *)
(* 4 of the specification (Feature get / set, cache, checks, limits).      *)
(*                                                                         *)
(* Numbers: voltages are integers counted in units of 1e-7 V (the finest   *)
(* entry of VOLTAGE_RESOLUTION), currents in the same scale of 1e-7 A.     *)
(* An optional value is a sequence: <<>> is "no entry", <<v>> is v.        *)
(* A command is <<template, ch_id, arguments>>.                            *)
(***************************************************************************)
EXTENDS Integers, Sequences, FiniteSets, TLC

VARIABLES drv,              \* the driver (container) under observation
          caching_allowed,  \* constructor flag of the driver
          cache,            \* feature name -> optional cached value
          limCache,         \* feature name -> optional limits validator
          dev,              \* the instrument: what it answers to each query
          last,             \* the last operation the caller made, and its outcome
          th,               \* ANC300: the threads calling into one root driver
          lock,             \* ANC300: the re-entrant lock of the root driver
          inbuf,            \* ANC300: lines the controller sent, not yet read
          ncalls,           \* ANC300: calls made so far
          output,           \* E3631A: channel id -> the instance made for it (0: none)
          objs,             \* E3631A: the channel instances made so far
          ref,              \* E3631A: the instances the caller holds, by name
          call              \* declarations: the last evaluation, and its result


\* The channel instances of one parent, and the declarations evaluated.
cvars == <<output, objs, ref, call>>

\* What the operations on the features of one driver leave alone.
avars == <<th, lock, inbuf, ncalls, cvars>>

\* What the operations on the ANC300 controller leave alone.
fixed == <<drv, caching_allowed, limCache, dev, last, cvars>>

vars == <<drv, caching_allowed, cache, limCache, dev, last,
          th, lock, inbuf, ncalls, output, objs, ref, call>>

Volt(n) == n * 10000000
mV(n)   == n * 10000
uV(n)   == n * 10

NoVal == <<>>

(***************************************************************************)
(* Declarations of the drivers                                             *)
(***************************************************************************)

\* ---- attocube/anc300.py : ANCStepper, channel id 1 ----------------------
ANC_ch_id == "1"

ANCStepper_Features == {"mode", "saved_capacitance"}

ANCStepper_mode_mapping_swapped == ("Ground" :> "stp") @@ ("Step" :> "gnd")

ANCStepper_mode_mapping == ("Ground" :> "gnd") @@ ("Step" :> "stp")

\* ---- yokogawa/model_gs200.py : YokogawaGS200.output --------------------
GS200_Features ==
    {"mode", "voltage", "voltage_range", "current", "current_range"}

GS200_mode_mapping == ("voltage" :> "VOLT") @@ ("current" :> "CURR")

GS200_mode_discard_no_voltage ==
    [feature |-> {"voltage_range", "current", "current_range"},
     limits  |-> {"voltage", "current"}]

GS200_mode_discard ==
    [feature |-> {"voltage", "voltage_range", "current", "current_range"},
     limits  |-> {"voltage", "current"}]

GS200_voltage_range_values == {mV(10), mV(100), Volt(1), Volt(10), Volt(30)}

GS200_current_range_values == {mV(1), mV(10), mV(100), mV(200)}

\* CURRENT_RESOLUTION, in units of 1e-7 A; the entry of the 1 mA range
\* (1e-8 A) is below the unit and left out.
GS200_CURRENT_RESOLUTION == (mV(10) :> 1) @@ (mV(100) :> 10) @@ (mV(200) :> 10)

GS200_VOLTAGE_RESOLUTION ==
    (mV(10) :> 1) @@ (mV(100) :> 10) @@ (Volt(1) :> 100) @@
    (Volt(10) :> 1000) @@ (Volt(30) :> 10000)

GS200_voltage_constant == Volt(30)

GS200_current_constant == mV(200)

\* ---- yokogawa/model_7651.py : Yokogawa7651.output ----------------------
Y7651_Features == {"voltage_range", "voltage", "ocp.enabled"}

Y7651_voltage_range_mapping ==
    (mV(10) :> 2) @@ (mV(100) :> 3) @@ (Volt(1) :> 4) @@
    (Volt(10) :> 5) @@ (Volt(30) :> 6)

Y7651_voltage_range_discard ==
    [feature |-> {"ocp.enabled"}, limits |-> {"voltage"}]

Y7651_VOLTAGE_RESOLUTION_coarse ==
    (mV(10) :> 1) @@ (mV(100) :> 10) @@ (Volt(1) :> 10000) @@
    (Volt(10) :> 1000) @@ (Volt(30) :> 10000)

Y7651_VOLTAGE_RESOLUTION ==
    (mV(10) :> 1) @@ (mV(100) :> 10) @@ (Volt(1) :> 100) @@
    (Volt(10) :> 1000) @@ (Volt(30) :> 10000)

\* ---- bilt/cards/be2100.py : BE2100, a card of the BN100 chassis ---------
BE2100_ch_id == "1"

BE2100_Features == {"output", "voltage_range"}

BE2100_voltage_range_values == {mV(1200), Volt(12)}

BE2100_voltage_range_no_check == [feat |-> "", passes |-> {}]

\* checks='not {output}': passes when the value read is falsy.
BE2100_voltage_range_checks == [feat |-> "output", passes |-> {"False", "None"}]

(***************************************************************************)
(* The descriptor engine (specification, sections 4.1 and 4.2)             *)
(***************************************************************************)

Features(D) ==
    CASE D = "ANCStepper" -> ANCStepper_Features
      [] D = "GS200"      -> GS200_Features
      [] D = "Y7651"      -> Y7651_Features
      [] D = "BE2100"     -> BE2100_Features
      [] OTHER            -> {}

\* What the instrument holds: one key per quantity it can be asked for.
DevKeys(D) ==
    CASE D = "ANCStepper" -> {"mode", "saved_capacitance"}
      [] D = "GS200"      -> {"func", "level", "range"}
      [] D = "Y7651"      -> {"function", "level", "range"}
      [] D = "BE2100"     -> {"output", "range"}
      [] OTHER            -> {"installed"}

DevKey(D, f) ==
    CASE D = "GS200" /\ f = "mode"                               -> "func"
      [] D = "GS200" /\ f \in {"voltage", "current"}             -> "level"
      [] D = "GS200" /\ f \in {"voltage_range", "current_range"} -> "range"
      [] D = "Y7651" /\ f = "voltage"                            -> "level"
      [] D = "Y7651" /\ f = "voltage_range"                      -> "range"
      [] D = "BE2100" /\ f = "voltage_range"                     -> "range"
      [] OTHER -> f

ChId(D) ==
    CASE D = "ANCStepper" -> ANC_ch_id
      [] D = "BE2100"     -> BE2100_ch_id
      [] OTHER -> ""

\* "template": a command template; "custom": a _get_<name> method of the
\* driver; "none": getter=True (or nothing) with no such method.
GetterKind(D, f) ==
    CASE D = "ANCStepper" -> "template"
      [] D = "GS200" /\ f = "mode" -> "template"
      [] D = "GS200" /\ f \in {"voltage", "current"} -> "custom"
      [] D = "Y7651" /\ f = "voltage" -> "template"
      [] D = "Y7651" /\ f \in {"voltage_range", "ocp.enabled"} -> "custom"
      [] D = "BE2100" -> "template"
      [] OTHER -> "none"

GetTemplate(D, f) ==
    CASE D = "ANCStepper" /\ f = "mode" -> "getm {ch_id}"
      [] D = "ANCStepper" /\ f = "saved_capacitance" -> "getc {ch_id}"
      [] D = "GS200" /\ f = "mode" -> ":SOUR:FUNC?"
      [] D = "Y7651" /\ f = "voltage" -> "OD"
      [] D = "BE2100" /\ f = "output" -> "OUT?"
      [] D = "BE2100" /\ f = "voltage_range" -> "VOLT:RANG?"
      [] OTHER -> ""

SetTemplate(D, f) ==
    CASE D = "ANCStepper" /\ f = "mode" -> "setm {ch_id} {}"
      [] D = "GS200" /\ f = "mode" -> ":SOUR:FUNC {}"
      [] D = "GS200" /\ f \in {"voltage", "current"} -> ":SOUR:LEV {}"
      [] D = "GS200" /\ f \in {"voltage_range", "current_range"} -> ":SOUR:RANG {}"
      [] D = "Y7651" /\ f = "voltage" -> "S{:+E}E"
      [] D = "Y7651" /\ f = "voltage_range" -> ":SOUR:RANG {:E}"
      [] D = "BE2100" /\ f = "output" -> "OUT {}"
      [] D = "BE2100" /\ f = "voltage_range" -> "VOLT:RANG {}"
      [] OTHER -> ""

HasSetter(D, f) == SetTemplate(D, f) # ""

HasMapping(D, f) ==
    \/ D = "ANCStepper" /\ f = "mode"
    \/ D = "GS200" /\ f = "mode"
    \/ D = "Y7651" /\ f = "voltage_range"

Mapping(D, f) ==
    CASE D = "ANCStepper" /\ f = "mode" -> ANCStepper_mode_mapping
      [] D = "GS200" /\ f = "mode" -> GS200_mode_mapping
      [] D = "Y7651" /\ f = "voltage_range" -> Y7651_voltage_range_mapping

\* The mapping's wire side is written as numbers (2, 3, ...), the answers of
\* the instrument are text ('2', '3', ...).
MappingToNumbers(D, f) == D = "Y7651" /\ f = "voltage_range"

PyStr(n) == <<"0", "1", "2", "3", "4", "5", "6", "7", "8", "9">>[n + 1]

NoDiscard == [feature |-> {}, limits |-> {}]

Discard(D, f) ==
    CASE D = "GS200" /\ f = "mode" -> GS200_mode_discard
      [] D = "GS200" /\ f = "voltage_range" -> [feature |-> {}, limits |-> {"voltage"}]
      [] D = "GS200" /\ f = "current_range" -> [feature |-> {}, limits |-> {"current"}]
      [] D = "Y7651" /\ f = "voltage_range" -> Y7651_voltage_range_discard
      [] D = "BE2100" /\ f = "voltage_range" -> [feature |-> {}, limits |-> {"voltage"}]
      [] OTHER -> NoDiscard

\* Value Transform, towards the instrument: the argument of the command and
\* the text the instrument then holds.
Encode(D, f, v) == IF HasMapping(D, f) THEN Mapping(D, f)[v] ELSE v

WireText(D, f, wire) == IF MappingToNumbers(D, f) THEN PyStr(wire) ELSE wire

\* Value Transform, from the instrument: field extraction, then the mapping.
Extract(D, f, resp) ==
    CASE D = "Y7651" /\ f = "voltage_range" ->            \* 'F1R{}S{_}'
           IF resp.fn = "1" THEN <<resp.rng>> ELSE NoVal
      [] D = "BE2100" /\ f = "voltage_range" -> NoVal     \* '{},{_}' of None
      [] OTHER -> <<resp>>

\* anc300.py _post_get_saved_capacitance: '?' is None, else float(value).
ANCModule_post_get_saved_capacitance(value) ==
    IF value = "?" THEN "None" ELSE value

PostGet(D, f, x) ==
    IF D = "ANCStepper" /\ f = "saved_capacitance"
    THEN <<ANCModule_post_get_saved_capacitance(x[1])>>
    ELSE x

Decode(D, f, resp) ==
    LET x == Extract(D, f, resp)
    IN IF x = NoVal THEN NoVal
       ELSE IF HasMapping(D, f)
       THEN LET m  == Mapping(D, f)
                ks == {k \in DOMAIN m : WireText(D, f, m[k]) = x[1]}
            IN IF ks # {} THEN <<CHOOSE k \in ks : TRUE>> ELSE NoVal
       ELSE PostGet(D, f, x)

Res(val, err, c, cmds) == [val |-> val, err |-> err, cache |-> c, cmds |-> cmds]

Cmd(tmpl, ch, args) == <<tmpl, ch, args>>

\* str.format on the templates of the ANC300 modules: the text on the wire.
Format(cmd) ==
    CASE cmd[1] = "setm {ch_id} {}" -> "setm " \o cmd[2] \o " " \o cmd[3][1]
      [] cmd[1] = "getm {ch_id}"    -> "getm " \o cmd[2]
      [] cmd[1] = "getc {ch_id}"    -> "getc " \o cmd[2]

\* bilt/cards/common.py BN100Card.default_get_feature: the card selection is
\* put before the command, the query is made, and nothing is returned.
BN100Card_default_get_feature(dv, tmpl, key) ==
    [cmd |-> Cmd(<<"I{ch_id};", tmpl>>, BE2100_ch_id, <<>>), resp |-> "None"]

\* One query through the Backend: the command sent and the answer handed back.
DefaultGetFeature(D, dv, tmpl, key) ==
    IF D = "BE2100" THEN BN100Card_default_get_feature(dv, tmpl, key)
    ELSE [cmd |-> Cmd(tmpl, ChId(D), <<>>), resp |-> dv[key]]

\* bilt/cards/common.py BN100Card.default_set_feature
SetCommand(D, f, wire) ==
    IF D = "BE2100" THEN Cmd(<<"I{ch_id};", SetTemplate(D, f)>>, ChId(D), <<wire>>)
    ELSE Cmd(SetTemplate(D, f), ChId(D), <<wire>>)

Raw(resp, err, c, cmds) == [resp |-> resp, err |-> err, cache |-> c, cmds |-> cmds]

\* 4.1, around the getter: the entry that answers a get without any exchange,
\* the conversion of the raw answer, and the store of the converted value.
CacheHit(c, f) == caching_allowed /\ c[f] # NoVal

ConvertedTo(v, r) ==
    IF v = NoVal THEN Res(NoVal, "ProtocolError", r.cache, r.cmds)
    ELSE Res(v, "", r.cache, r.cmds)

Converted(D, f, r) ==
    IF r.err # "" THEN Res(NoVal, r.err, r.cache, r.cmds)
    ELSE ConvertedTo(Decode(D, f, r.resp), r)

Stored(f, r) ==
    IF r.err # "" \/ ~caching_allowed THEN r
    ELSE [r EXCEPT !.cache = [r.cache EXCEPT ![f] = r.val]]

\* model_7651.py _get_range: 'OS' is written, four lines are read, the second
\* one (function, range, output data) is returned.
Y7651_get_range(c, dv) ==
    Raw([fn |-> dv["function"], rng |-> dv["range"]], "", c, <<Cmd("OS", "", <<>>)>>)

\* model_7651.py ocp._get_enabled: the body is empty, the result is None.
Y7651_ocp_get_enabled(c, dv) == Raw("None", "", c, <<>>)

\* The getters that read no other feature of the driver.
PlainGetter(D, c, dv, f) ==
    CASE GetterKind(D, f) = "template" ->
           LET q == DefaultGetFeature(D, dv, GetTemplate(D, f), DevKey(D, f))
           IN Raw(q.resp, "", c, <<q.cmd>>)
      [] D = "Y7651" /\ f = "voltage_range" -> Y7651_get_range(c, dv)
      [] D = "Y7651" /\ f = "ocp.enabled" -> Y7651_ocp_get_enabled(c, dv)
      [] OTHER -> Raw("", "NotImplementedError", c, <<>>)

\* 4.1 Feature get of a feature read from inside a getter, a check or a
\* limits resolver (mode, output, voltage_range: all have plain getters).
InnerGet(D, c, dv, f) ==
    IF CacheHit(c, f) THEN Res(c[f], "", c, <<>>)
    ELSE Stored(f, Converted(D, f, PlainGetter(D, c, dv, f)))

\* model_gs200.py _get_voltage: the level in voltage mode, else the maximum.
\* m is the outcome of reading self.mode.
GS200_get_voltage_in(m, dv) ==
    IF m.err # "" THEN Raw("", m.err, m.cache, m.cmds)
    ELSE IF m.val # <<"voltage">>
         THEN Raw(GS200_voltage_constant, "", m.cache, m.cmds)
         ELSE LET q == DefaultGetFeature("GS200", dv, ":SOUR:LEV?", "level")
              IN Raw(q.resp, "", m.cache, Append(m.cmds, q.cmd))

GS200_get_voltage(c, dv) ==
    GS200_get_voltage_in(InnerGet("GS200", c, dv, "mode"), dv)

\* model_gs200.py _get_current: the level in current mode, else the maximum.
GS200_get_current_in(m, dv) ==
    IF m.err # "" THEN Raw("", m.err, m.cache, m.cmds)
    ELSE IF m.val # <<"current">>
         THEN Raw(GS200_current_constant, "", m.cache, m.cmds)
         ELSE LET q == DefaultGetFeature("GS200", dv, ":SOUR:LEV?", "level")
              IN Raw(q.resp, "", m.cache, Append(m.cmds, q.cmd))

GS200_get_current(c, dv) ==
    GS200_get_current_in(InnerGet("GS200", c, dv, "mode"), dv)

Getter(D, c, dv, f) ==
    CASE D = "GS200" /\ f = "voltage" -> GS200_get_voltage(c, dv)
      [] D = "GS200" /\ f = "current" -> GS200_get_current(c, dv)
      [] OTHER -> PlainGetter(D, c, dv, f)

\* 4.1 Feature get.  The driver's flag caching_allowed is read from the state.
FeatureGet(D, c, dv, f) ==
    IF CacheHit(c, f) THEN Res(c[f], "", c, <<>>)
    ELSE Stored(f, Converted(D, f, Getter(D, c, dv, f)))

\* ---- checks (4.2 step 1) --------------------------------------------------
\* A check is a predicate over the container: the feature it names is read
\* with a Feature get, and its value must be one of those that pass.
NoCheck == [feat |-> "", passes |-> {}]

GS200_voltage_range_checks == [feat |-> "mode", passes |-> {"voltage"}]

SetChecks(D, f) ==
    CASE D = "GS200" /\ f = "voltage" -> [feat |-> "mode", passes |-> {"voltage"}]
      [] D = "GS200" /\ f = "voltage_range" -> GS200_voltage_range_checks
      [] D = "GS200" /\ f = "current" -> [feat |-> "mode", passes |-> {"current"}]
      [] D = "GS200" /\ f = "current_range" -> [feat |-> "mode", passes |-> {"current"}]
      [] D = "BE2100" /\ f = "voltage_range" -> BE2100_voltage_range_checks
      [] OTHER -> NoCheck

\* [ok, err, cache, cmds]: err is an error raised while reading the feature.
CheckOutcome(k, r) ==
    [ok |-> r.err = "" /\ r.val # NoVal /\ r.val[1] \in k.passes,
     err |-> r.err, cache |-> r.cache, cmds |-> r.cmds]

EvalChecks(D, c, dv, f) ==
    IF SetChecks(D, f).feat = ""
    THEN [ok |-> TRUE, err |-> "", cache |-> c, cmds |-> <<>>]
    ELSE CheckOutcome(SetChecks(D, f), InnerGet(D, c, dv, SetChecks(D, f).feat))

\* ---- limits (4.2 step 2) --------------------------------------------------
FloatLimitsValidator(low, high, step) == [low |-> low, high |-> high, step |-> step]

Validate(lim, v) ==
    /\ lim.low <= v
    /\ v <= lim.high
    /\ (v - lim.low) % lim.step = 0

\* "values": a discrete set; "resolver": a _limits_<name> method; "none".
LimitsKind(D, f) ==
    CASE D = "GS200" /\ f \in {"voltage_range", "current_range"} -> "values"
      [] D = "GS200" /\ f \in {"voltage", "current"} -> "resolver"
      [] D = "Y7651" /\ f = "voltage" -> "resolver"
      [] D = "BE2100" /\ f = "voltage_range" -> "values"
      [] OTHER -> "none"

Values(D, f) ==
    CASE D = "GS200" /\ f = "voltage_range" -> GS200_voltage_range_values
      [] D = "GS200" /\ f = "current_range" -> GS200_current_range_values
      [] D = "BE2100" /\ f = "voltage_range" -> BE2100_voltage_range_values

\* The name given as limits=... : the resolver is _limits_<name>.
LimitsName(D, f) ==
    CASE D = "GS200" /\ f = "voltage" -> "voltage"
      [] D = "GS200" /\ f = "current" -> "voltage"
      [] OTHER -> f

LimRes(lim, err, c, cmds) == [lim |-> lim, err |-> err, cache |-> c, cmds |-> cmds]

\* model_gs200.py _limits_voltage; r is the outcome of reading
\* self.voltage_range.
GS200_limits_voltage_in(r) ==
    IF r.err # "" THEN LimRes(NoVal, r.err, r.cache, r.cmds)
    ELSE LET ran == r.val[1]
             res == GS200_VOLTAGE_RESOLUTION[ran]
             hi  == IF ran # Volt(30) THEN (ran * 12) \div 10 ELSE Volt(32)
         IN LimRes(<<FloatLimitsValidator(-hi, hi, res)>>, "", r.cache, r.cmds)

GS200_limits_voltage(c, dv) ==
    GS200_limits_voltage_in(InnerGet("GS200", c, dv, "voltage_range"))

\* model_7651.py _limits_voltage; r is the outcome of reading
\* self.voltage_range.
Y7651_limits_voltage_in(r) ==
    IF r.err # "" THEN LimRes(NoVal, r.err, r.cache, r.cmds)
    ELSE LET ran == r.val[1]
             res == Y7651_VOLTAGE_RESOLUTION[ran]
             hi  == IF ran # Volt(30) THEN (ran * 12) \div 10 ELSE Volt(32)
         IN LimRes(<<FloatLimitsValidator(-hi, hi, res)>>, "", r.cache, r.cmds)

Y7651_limits_voltage(c, dv) ==
    Y7651_limits_voltage_in(InnerGet("Y7651", c, dv, "voltage_range"))

\* model_gs200.py _limits_current; r is the outcome of reading
\* self.current_range.
GS200_limits_current_in(r) ==
    IF r.err # "" THEN LimRes(NoVal, r.err, r.cache, r.cmds)
    ELSE LET ran == r.val[1]
             res == GS200_CURRENT_RESOLUTION[ran]
             hi  == IF ran # mV(200) THEN (ran * 12) \div 10 ELSE mV(220)
         IN LimRes(<<FloatLimitsValidator(-hi, hi, res)>>, "", r.cache, r.cmds)

GS200_limits_current(c, dv) ==
    GS200_limits_current_in(InnerGet("GS200", c, dv, "current_range"))

LimitsResolver(D, c, dv, name) ==
    CASE D = "GS200" /\ name = "voltage" -> GS200_limits_voltage(c, dv)
      [] D = "GS200" /\ name = "current" -> GS200_limits_current(c, dv)
      [] D = "Y7651" /\ name = "voltage" -> Y7651_limits_voltage(c, dv)

\* The validator used for a set of f: the cached one, or a new one.
ResolveLimits(D, c, lc, dv, f) ==
    IF lc[LimitsName(D, f)] # NoVal THEN LimRes(lc[LimitsName(D, f)], "", c, <<>>)
    ELSE LimitsResolver(D, c, dv, LimitsName(D, f))

\* ---- operation check hook (4.2 step 6) -----------------------------------
\* A channel without a hook of its own uses the one of its root.
HasCheckHook(D) == D \in {"GS200", "Y7651", "BE2100"}

CheckCmd(D) ==
    CASE D = "GS200"  -> Cmd("status_byte", "", <<>>)
      [] D = "Y7651"  -> Cmd("read_status_byte", "", <<>>)
      [] D = "BE2100" -> Cmd("SYST:ERR?", "", <<>>)

\* The first component of what the hook returns: TRUE is success.  code is
\* the error the instrument reports after the command (0: none).
\* model_gs200.py: (False, errors) when status_byte[2], else (True, None).
\* model_7651.py:  (False, msg) when stb[6], else (True, None).
\* bn100.py:       (bool(code), msg).
\* model_E3631A.py: (bool(code), msg).
default_check_operation_ignored(D, code) == TRUE

default_check_operation(D, code) ==
    CASE D = "GS200"  -> code = 0
      [] D = "Y7651"  -> code = 0
      [] D = "BE2100" -> code # 0
      [] D = "E3631A" -> code # 0

\* The second component of what the hook returns when it reports a failure.
\* model_gs200.py: self.read_errors(), the answer to ':SYST:ERR?'.
\* model_7651.py:  'Syntax error' if stb[3] else 'Overload' (code 1 stands for
\*                 a status byte with bits 6 and 3, code 2 for bit 6 alone).
\* bn100.py, model_E3631A.py: the text after the comma of the answer to
\*                 'SYST:ERR?'.
default_check_operation_details(D, code) ==
    CASE D = "GS200"  -> "-113,Undefined header"
      [] D = "Y7651"  -> IF code = 1 THEN "Syntax error" ELSE "Overload"
      [] OTHER        -> IF code = 0 THEN "No error" ELSE "Undefined header"

\* ---- 4.2 Feature set -------------------------------------------------------
SetRes(err, c, lc, dv, cmds, chk) ==
    [err |-> err, cache |-> c, lim |-> lc, dev |-> dv, cmds |-> cmds, chk |-> chk]

ClearEntries(c, names) == [f \in DOMAIN c |-> IF f \in names THEN NoVal ELSE c[f]]

\* Steps 3 to 7, once checks and limits have passed.
SendSet(D, c, lc, dv, f, v, code, cmds, chk) ==
    IF HasMapping(D, f) /\ v \notin DOMAIN Mapping(D, f)
    THEN SetRes("ValueError", c, lc, dv, cmds, chk)
    ELSE
    LET wire == Encode(D, f, v)
        cmd  == SetCommand(D, f, wire)
        dv2  == IF code = 0 THEN [dv EXCEPT ![DevKey(D, f)] = WireText(D, f, wire)]
                ELSE dv
        sent == IF HasCheckHook(D) THEN Append(Append(cmds, cmd), CheckCmd(D))
                ELSE Append(cmds, cmd)
    IN IF HasCheckHook(D) /\ ~default_check_operation(D, code)
       THEN SetRes("DeviceError", c, lc, dv2, sent, chk)
       ELSE LET d  == Discard(D, f)
                c1 == IF caching_allowed THEN [c EXCEPT ![f] = <<v>>] ELSE c
            IN SetRes("", ClearEntries(c1, d.feature),
                      ClearEntries(lc, d.limits), dv2, sent, chk)

\* Step 2 is reached, with a resolver, by a set whose checks have passed.
LimitsAsked(D, f, how) ==
    /\ LimitsKind(D, f) = "resolver"
    /\ how = IF SetChecks(D, f).feat = "" THEN "none" ELSE "passed"

\* Step 2 with a resolver: lm is the validator found, cmds the commands sent
\* so far, how the outcome of the checks.
AfterLimits(D, lc, dv, f, v, code, cmds, how, lm) ==
    IF lm.err # "" THEN SetRes(lm.err, lm.cache, lc, dv, cmds \o lm.cmds, how)
    ELSE IF Validate(lm.lim[1], v)
    THEN SendSet(D, lm.cache, [lc EXCEPT ![LimitsName(D, f)] = lm.lim], dv, f, v,
                 code, cmds \o lm.cmds, how)
    ELSE SetRes("OutOfRangeError", lm.cache, [lc EXCEPT ![LimitsName(D, f)] = lm.lim],
                dv, cmds \o lm.cmds, how)

\* Steps 1 and 2: chk is the outcome of the checks.
AfterChecks(D, lc, dv, f, v, code, how, chk) ==
    IF chk.err # "" THEN SetRes(chk.err, chk.cache, lc, dv, chk.cmds, "none")
    ELSE IF ~chk.ok
    THEN SetRes("PreconditionError", chk.cache, lc, dv, chk.cmds, "failed")
    ELSE CASE LimitsKind(D, f) = "values" ->
                IF v \in Values(D, f)
                THEN SendSet(D, chk.cache, lc, dv, f, v, code, chk.cmds, how)
                ELSE SetRes("OutOfRangeError", chk.cache, lc, dv, chk.cmds, how)
           [] LimitsKind(D, f) = "resolver" ->
                AfterLimits(D, lc, dv, f, v, code, chk.cmds, how,
                            ResolveLimits(D, chk.cache, lc, dv, f))
           [] OTHER -> SendSet(D, chk.cache, lc, dv, f, v, code, chk.cmds, how)

FeatureSet(D, c, lc, dv, f, v, code) ==
    AfterChecks(D, lc, dv, f, v, code,
                IF SetChecks(D, f).feat = "" THEN "none" ELSE "passed",
                EvalChecks(D, c, dv, f))

(***************************************************************************)
(* Channels found by discovery (4.3)                                       *)
(***************************************************************************)

\* anc300.py: anm150 = channel('_available_anm150', ANCStepper, cache=True)
ANC300_anm150 == [resolver |-> "_available_anm150", cache |-> TRUE]

\* The names the class body of ANC300 binds.
ANC300_attributes ==
    {"PROTOCOLES", "DEFAULTS", "anm150", "__init__", "initialize", "connected",
     "anc_query", "_list_anm150", "_list_modules"}

\* bn100.py: be2100 = channel('_list_be2100', BE2100)
BN100_be2100 == [resolver |-> "_list_be2100", cache |-> FALSE]

BN100_attributes ==
    {"PROTOCOLS", "DEFAULTS", "be2100", "initialize", "read_error",
     "default_check_operation", "_list_be2100"}

\* bilt/cards/common.py make_card_detector: list_channel is defined inside
\* and never returned, so the call yields None.
make_card_detector(model_id) == "None"

\* be2100.py: detect_be2100 = make_card_detector([...]);
\* bn100.py:  _list_be2100 = detect_be2100
BN100_list_be2100 == make_card_detector({"BE2101", "BE2102", "BE2103"})

Found(ids, err) == [ids |-> ids, err |-> err]

\* anc300.py _list_anm150: iterates over self._modules, an attribute that
\* only _list_modules assigns; nothing calls _list_modules.
ANC300_list_anm150(dv) == Found({}, "AttributeError")

\* The valid ids of the channel of root D, as its resolver yields them.
Discover(D, dv) ==
    CASE D = "ANC300" ->
           IF ANC300_anm150.resolver \notin ANC300_attributes
           THEN Found({}, "AttributeError")
           ELSE ANC300_list_anm150(dv)
      [] D = "BN100" ->
           IF BN100_be2100.resolver \notin BN100_attributes
           THEN Found({}, "AttributeError")
           ELSE IF BN100_list_be2100 = "None"
           THEN Found({}, "TypeError")
           ELSE Found(dv["installed"], "")

\* root.<channel>[id]
IndexChannel(D, dv, id) ==
    LET d == Discover(D, dv)
    IN IF d.err # "" THEN d.err
       ELSE IF id \notin d.ids THEN "UnknownChannelError"
       ELSE ""

(***************************************************************************)
(* The ANC300 controller shared by threads: state                          *)
(***************************************************************************)

\* Bounds of the protocol model.
NThreads == 2

MaxCalls == 2

MaxTimeout == 2

Threads == 1..NThreads

\* Time a read that times out can take, in ticks (always positive).
Elapsed == {1, 2}

\* The count of reads of one wait is followed up to this value.
ReadsCap == MaxTimeout + 2

Free == [owner |-> 0, depth |-> 0]

IdleThread ==
    [pc |-> "idle", op |-> "", block |-> FALSE, timeout |-> 0, t |-> 0,
     reads |-> 0, cmd |-> "", ret |-> "", answer |-> <<>>, own |-> TRUE,
     clean |-> TRUE, res |-> NoVal, err |-> "", msg |-> <<>>, log |-> <<>>,
     out |-> "", args |-> <<>>]

AIdle ==
    /\ th = [T \in Threads |-> IdleThread]
    /\ lock = Free
    /\ inbuf = <<>>
    /\ ncalls = 0

\* No declaration has been evaluated.
NoCall == [fn |-> "", feat |-> "", args |-> <<>>, tok |-> <<>>, out |-> <<>>]

\* No channel instance exists.
CIdle ==
    /\ output = <<>>
    /\ objs = <<>>
    /\ ref = <<>>
    /\ call = NoCall

(***************************************************************************)
(* The callers' operations on one driver                                   *)
(***************************************************************************)

\* Bounds of the inputs.
MaxLevel == 1

MaxSlot == 2

Roots == {"ANC300", "BN100"}

Drivers == {"ANCStepper", "GS200", "Y7651", "BE2100"} \cup Roots

LimitNames(D) ==
    CASE D = "GS200"  -> {"voltage", "current"}
      [] D = "Y7651"  -> {"voltage"}
      [] D = "BE2100" -> {"voltage"}
      [] OTHER -> {}

Levels == {Volt(k) : k \in 0..MaxLevel}

\* Answers the instrument can give for each of its keys.
DevTokens(D, key) ==
    CASE D = "ANCStepper" /\ key = "mode" -> {"gnd", "stp", "cap"}
      [] D = "ANCStepper" /\ key = "saved_capacitance" -> {"?", "5"}
      [] D = "GS200" /\ key = "func"     -> {"VOLT", "CURR"}
      [] D = "GS200" /\ key = "level"    -> Levels
      [] D = "Y7651" /\ key = "function" -> {"1", "5"}
      [] D = "Y7651" /\ key = "level"    -> Levels
      [] D = "Y7651" /\ key = "range"    -> {"4", "6"}
      [] D = "BE2100" /\ key = "output"  -> {"True", "False"}
      [] OTHER -> {}

\* Values a caller passes to a set (some are invalid on purpose).
SetInputs(D, f) ==
    CASE D = "ANCStepper" /\ f = "mode" -> {"Ground", "Step"}
      [] D = "GS200" /\ f = "mode" -> {"voltage", "current"}
      [] D = "GS200" /\ f = "voltage" -> Levels \cup {Volt(30)}
      [] D = "GS200" /\ f = "current" -> {mV(100 * k) : k \in 0..MaxLevel}
      [] D = "GS200" /\ f = "voltage_range" -> {Volt(1), Volt(30), Volt(5)}
      [] D = "GS200" /\ f = "current_range" -> {mV(100), mV(300)}
      [] D = "Y7651" /\ f = "voltage" -> Levels \cup {Volt(30)}
      [] D = "Y7651" /\ f = "voltage_range" -> {Volt(1), Volt(30), Volt(5)}
      [] D = "BE2100" /\ f = "output" -> {"True", "False"}
      [] D = "BE2100" /\ f = "voltage_range" -> {mV(1200), Volt(12), Volt(5)}
      [] OTHER -> {}

ErrorCodes(D) ==
    IF D = "Y7651" THEN {0, 1, 2} ELSE IF HasCheckHook(D) THEN {0, 1} ELSE {0}

InitDev(D) ==
    CASE D = "ANCStepper" -> {[mode |-> a, saved_capacitance |-> "?"] :
                                 a \in DevTokens(D, "mode")}
      [] D = "GS200" -> {[func |-> a, level |-> b, range |-> Volt(1)] :
                            a \in DevTokens(D, "func"), b \in DevTokens(D, "level")}
      [] D = "Y7651" -> {[function |-> a, level |-> b, range |-> c] :
                            a \in DevTokens(D, "function"), b \in DevTokens(D, "level"),
                            c \in DevTokens(D, "range")}
      [] D = "BE2100" -> {[output |-> a, range |-> mV(1200)] :
                            a \in DevTokens(D, "output")}
      [] OTHER -> {[installed |-> ids] : ids \in SUBSET (1..MaxSlot)}

\* The record of an operation: what was asked, what came back, the commands
\* sent, the outcome of the checks ("none", "passed", "failed"), the cache
\* entry of the feature before the operation, the error the instrument
\* reported after a set command and the message the error raised carries,
\* and the feature and value of the operation just before when that was a
\* successful set.  limname is the name of the limits a set asked for once
\* its checks had passed ("": none).  On a Keysight output, trig is the value
\* of the most recent successful set of trigger.mode and vform the command
\* form ("VOLT", "VOLT:TRIG") under which the voltage entry was obtained.
OpRecord(op, f, arg, val, err, cmds, chk, pre) ==
    [op |-> op, feat |-> f, arg |-> arg, val |-> val, err |-> err, cmds |-> cmds,
     chk |-> chk, pre |-> pre, code |-> 0, msg |-> "", limname |-> "",
     trig |-> last.trig, vform |-> last.vform,
     after |-> IF last.op = "set" /\ last.err = "" THEN last.feat ELSE "",
     afterArg |-> IF last.op = "set" /\ last.err = "" THEN last.arg ELSE NoVal]

NoOp ==
    [op |-> "init", feat |-> "", arg |-> NoVal, val |-> NoVal, err |-> "",
     cmds |-> <<>>, chk |-> "none", pre |-> NoVal, code |-> 0, msg |-> "",
     limname |-> "", trig |-> "", vform |-> "", after |-> "", afterArg |-> NoVal]

FInit ==
    /\ drv \in Drivers
    /\ caching_allowed \in BOOLEAN
    /\ cache = [f \in Features(drv) |-> NoVal]
    /\ limCache = [n \in LimitNames(drv) |-> NoVal]
    /\ dev \in InitDev(drv)
    /\ last = NoOp
    /\ AIdle
    /\ CIdle

\* value = driver.<feature>
GetReturns(f, r) ==
    /\ cache' = r.cache
    /\ last' = OpRecord("get", f, NoVal, r.val, r.err, r.cmds, "none", cache[f])
    /\ UNCHANGED <<drv, caching_allowed, limCache, dev>>
    /\ UNCHANGED avars

Get == \E f \in Features(drv) : GetReturns(f, FeatureGet(drv, cache, dev, f))

\* driver.<feature> = value
SetReturns(f, v, code, r) ==
    /\ cache' = r.cache
    /\ limCache' = r.lim
    /\ dev' = r.dev
    /\ last' = [OpRecord("set", f, <<v>>, NoVal, r.err, r.cmds, r.chk, cache[f])
                 EXCEPT !.code = code,
                        !.msg = IF r.err = "DeviceError"
                                THEN default_check_operation_details(drv, code)
                                ELSE "",
                        !.limname = IF LimitsAsked(drv, f, r.chk)
                                    THEN LimitsName(drv, f) ELSE ""]
    /\ UNCHANGED <<drv, caching_allowed>>
    /\ UNCHANGED avars

Set ==
    \E f \in Features(drv) : \E v \in SetInputs(drv, f) : \E code \in ErrorCodes(drv) :
        /\ HasSetter(drv, f)
        /\ SetReturns(f, v, code, FeatureSet(drv, cache, limCache, dev, f, v, code))

\* driver.clear_cache()
ClearCache ==
    /\ drv \notin Roots
    /\ cache' = [f \in DOMAIN cache |-> NoVal]
    /\ limCache' = [n \in DOMAIN limCache |-> NoVal]
    /\ last' = OpRecord("clear_cache", "", NoVal, NoVal, "", <<>>, "none", NoVal)
    /\ UNCHANGED <<drv, caching_allowed, dev>>
    /\ UNCHANGED avars

\* The instrument changes on its own (front panel, protection, ...).
DeviceChange ==
    \E k \in DevKeys(drv) : \E t \in DevTokens(drv, k) :
        /\ dev[k] # t
        /\ dev' = [dev EXCEPT ![k] = t]
        /\ UNCHANGED <<drv, caching_allowed, cache, limCache, last>>
        /\ UNCHANGED avars

\* channel = root.anm150[id], root.be2100[id]
Index ==
    \E id \in 1..MaxSlot :
        /\ drv \in Roots
        /\ last' = OpRecord("index", "", <<id>>, NoVal, IndexChannel(drv, dev, id),
                            <<>>, "none", NoVal)
        /\ UNCHANGED <<drv, caching_allowed, cache, limCache, dev>>
        /\ UNCHANGED avars

FNext == Get \/ Set \/ ClearCache \/ DeviceChange \/ Index

Spec == FInit /\ [][FNext]_vars

(***************************************************************************)
(* Properties of the features                                              *)
(***************************************************************************)

\* C1: with caching allowed, a get of a feature that comes right after a
\* successful set of the same feature to v returns v and sends nothing; on
\* the ANC stepper channel 1, mode = 'Step' sends exactly 'setm 1 stp' and
\* the get that follows returns 'Step' with no exchange.
C1_GetAfterSet ==
    /\ (caching_allowed /\ last.op = "get" /\ last.after = last.feat)
          => (last.err = "" /\ last.val = last.afterArg /\ last.cmds = <<>>)
    /\ (drv = "ANCStepper" /\ last.op = "set" /\ last.feat = "mode"
            /\ last.arg = <<"Step">>)
          => (Len(last.cmds) = 1 /\ Format(last.cmds[1]) = "setm 1 stp")
    /\ (drv = "ANCStepper" /\ caching_allowed /\ last.op = "get"
            /\ last.feat = "mode" /\ last.after = "mode"
            /\ last.afterArg = <<"Step">>)
          => (last.val = <<"Step">> /\ last.cmds = <<>>)

C1_Witness ==
    /\ drv = "ANCStepper" /\ caching_allowed
    /\ last.op = "get" /\ last.feat = "mode" /\ last.after = "mode"
    /\ last.afterArg = <<"Step">> /\ last.val = <<"Step">>

C9_Range1V ==
    [][(last' # last /\ drv = "Y7651") =>
         /\ (last'.op = "get" /\ last'.feat = "voltage_range" /\ last'.cmds # <<>>
                 /\ dev["function"] = "1" /\ dev["range"] = "4")
               => last'.val = <<Volt(1)>>
         /\ (limCache["voltage"] = NoVal /\ limCache'["voltage"] # NoVal
                 /\ (cache["voltage_range"] = <<Volt(1)>>
                        \/ (~CacheHit(cache, "voltage_range")
                               /\ dev["function"] = "1" /\ dev["range"] = "4")))
               => limCache'["voltage"] =
                     <<FloatLimitsValidator(-mV(1200), mV(1200), uV(10))>>
      ]_vars

C9_Witness ==
    /\ drv = "Y7651" /\ dev["range"] = "4"
    /\ last.op = "set" /\ last.feat = "voltage" /\ last.err = ""
    /\ Len(last.cmds) > 1 /\ last.cmds[1] = Cmd("OS", "", <<>>)
    /\ cache["voltage_range"] = <<Volt(1)>>
    /\ limCache["voltage"] = <<FloatLimitsValidator(-mV(1200), mV(1200), uV(10))>>

\* C9 as stated: the step of the validator is 1e-3.
C9_Original ==
    (drv = "Y7651" /\ cache["voltage_range"] = <<Volt(1)>>
        /\ limCache["voltage"] # NoVal)
      => limCache["voltage"] = <<FloatLimitsValidator(-mV(1200), mV(1200), mV(1))>>

\* C10: indexing anm150 / be2100 with an id that is not an installed module
\* raises the unknown-channel error.
C10_UnknownChannel ==
    (last.op = "index" /\ last.arg[1] \notin dev["installed"])
      => last.err = "UnknownChannelError"

\* C12: when the set command of F was sent and the hook of the container
\* then reports a failure (GS200, 7651: the instrument signals an error), the
\* set raises the device error with the message the hook gives, and the entry
\* of F in the cache is what it was before the set.
C12_FailedOperationCheck ==
    [][(last' # last /\ last'.op = "set") =>
         /\ (last'.err = "DeviceError") =>
               /\ cache'[last'.feat] = cache[last'.feat]
               /\ last'.cmds # <<>>
               /\ last'.msg =
                     CASE drv = "GS200" -> "-113,Undefined header"
                       [] drv = "Y7651" /\ last'.code = 1 -> "Syntax error"
                       [] drv = "Y7651" /\ last'.code = 2 -> "Overload"
                       [] OTHER -> "No error"
         /\ (drv \in {"GS200", "Y7651"} /\ last'.code # 0
                 /\ last'.err \notin {"PreconditionError", "OutOfRangeError",
                                      "NotImplementedError", "ProtocolError",
                                      "ValueError"})
               => last'.err = "DeviceError"
      ]_vars

C12_Witness ==
    /\ drv = "GS200" /\ caching_allowed
    /\ last.op = "set" /\ last.feat = "voltage" /\ last.arg = <<Volt(1)>>
    /\ last.err = "DeviceError" /\ last.msg = "-113,Undefined header"
    /\ last.pre = <<Volt(0)>> /\ cache["voltage"] = <<Volt(0)>>

\* The validator of the Yokogawa sources for the range r of the quantity T.
RangeLimits(T, r) ==
    CASE T = "voltage" /\ r = Volt(1) ->
           FloatLimitsValidator(-mV(1200), mV(1200), uV(10))
      [] T = "voltage" /\ r = Volt(30) ->
           FloatLimitsValidator(-Volt(32), Volt(32), mV(1))
      [] T = "current" /\ r = mV(100) ->
           FloatLimitsValidator(-mV(120), mV(120), 10)

\* The set of T that comes right after a successful set of its range, once
\* its checks have passed.
SetAfterRange(T) ==
    /\ drv \in {"GS200", "Y7651"}
    /\ last.op = "set" /\ last.feat = T /\ last.after = T \o "_range"
    /\ last.limname # ""

\* C16: after a successful set of a feature with a 'limits' discard edge to
\* T (voltage_range to voltage, current_range to current), the next set of T
\* is validated against the limits of T computed from the new range.
C16_LimitsFromNewInputs ==
    \A T \in {"voltage", "current"} :
        SetAfterRange(T) =>
            /\ last.limname = T
            /\ caching_allowed =>
                   limCache[T] = <<RangeLimits(T, last.afterArg[1])>>

\* C19: a get of Yokogawa7651 output.ocp.enabled, whose getter is left
\* unimplemented, raises the unsupported-operation error: None is neither
\* returned nor cached.
C19_UnimplementedRaises ==
    drv = "Y7651" =>
        /\ (last.op = "get" /\ last.feat = "ocp.enabled") =>
               /\ last.err = "NotImplementedError"
               /\ last.val # <<"None">>
        /\ cache["ocp.enabled"] # <<"None">>

\* C20: the resolver make_card_detector builds for BN100.be2100 lists the
\* slot of every installed card: indexing be2100 with the slot of an
\* installed card yields its channel.
C20_CardDetector ==
    (drv = "BN100" /\ last.op = "index" /\ last.arg[1] \in dev["installed"])
      => last.err = ""

\* C21: a get of a feature of a BN100Card channel sends the template of the
\* feature prefixed with the card selection 'I<n>;', and the value handed
\* back to the feature is the answer of the Backend to that command, never
\* None.
C21_CardGetReturnsAnswer ==
    (drv = "BE2100" /\ last.op = "get" /\ last.cmds # <<>>) =>
        /\ last.cmds[1] = Cmd(<<"I{ch_id};", GetTemplate("BE2100", last.feat)>>,
                              BE2100_ch_id, <<>>)
        /\ last.err = ""
        /\ last.val = <<dev[DevKey("BE2100", last.feat)]>>

\* C24: on every driver with a hook, a set whose command was sent completes
\* without device error exactly when the instrument reports no error after
\* it (code 0), and fails with the device error and the message of the
\* instrument when it reports one: the BN100 cards follow the convention of
\* the Yokogawa hooks.
C24_HookConvention ==
    (last.op = "set" /\ drv \in {"GS200", "Y7651", "BE2100"}
        /\ last.err \in {"", "DeviceError"}) =>
        /\ (last.code = 0) => last.err = ""
        /\ (last.code # 0) =>
               /\ last.err = "DeviceError"
               /\ last.msg = CASE drv = "GS200" -> "-113,Undefined header"
                               [] drv = "Y7651" -> IF last.code = 1 THEN "Syntax error"
                                                   ELSE "Overload"
                               [] drv = "BE2100" -> "Undefined header"

\* C26: on the GS200 in current mode, a set of current to v right after
\* current_range was set to 0.1 is accepted (the command is sent) exactly when
\* v satisfies the validator _limits_current builds from that range,
\* +/-0.12 A in steps of 1e-6 A; and every selectable voltage_range value has
\* an entry in the resolution table.
C26_CurrentAccepted ==
    /\ (drv = "GS200" /\ last.op = "set" /\ last.feat = "current"
           /\ last.chk = "passed" /\ last.after = "current_range"
           /\ last.afterArg = <<mV(100)>>)
         => ((last.err \in {"", "DeviceError"})
                <=> Validate(FloatLimitsValidator(-mV(120), mV(120), 10), last.arg[1]))
    /\ GS200_voltage_range_values \subseteq DOMAIN GS200_VOLTAGE_RESOLUTION

(***************************************************************************)
(* The ANC300 controller shared by threads: operations (anc300.py)         *)
(***************************************************************************)

\* anc_query: 'with self.lock:' around the write and the reads.
anc_query_without_lock == FALSE

anc_query_with_lock == TRUE

\* def check_answer(res, msg): the number of parameters.
check_answer_parameters == 2

\* _wait_for: check_answer(msg): the number of arguments passed.
WaitFor_check_answer_arguments == 1

check_answer(res, msg) == IF ~res THEN "InvalidCommand" ELSE ""

\* check_answer: err = ' '.join(msg.split('\r\n')[:-1]).  A text is given by
\* its lines; anc_query joins the lines it read with '\n', and no line holds
\* '\r\n' (the termination the Backend strips), so split('\r\n') yields the
\* list with msg as its only element.  The joined text is given by the list
\* of the texts joined: the empty list is ''.
check_answer_split(msg) == <<msg>>

check_answer_err(msg) ==
    SubSeq(check_answer_split(msg), 1, Len(check_answer_split(msg)) - 1)

\* _wait_for: 'if e.error_code != errors.VI_ERROR_TMO: raise'
WaitFor_except_all_retried(code) == "retry"

WaitFor_except(code) == IF code # "VI_ERROR_TMO" THEN "raise" ELSE "retry"

\* _wait_for: 't += default_timer() - tic'
WaitFor_elapsed_dropped(t, e) == t

WaitFor_elapsed(t, e) == t + e

\* A line of the controller: its text, and the thread and command it answers.
Line(txt, T, cmd) == [txt |-> txt, th |-> T, cmd |-> cmd]

\* What the controller sends in answer to a command.
Response(T, cmd) ==
    CASE cmd = "ver" -> {<<Line("ANC300", T, cmd), Line("OK", T, cmd)>>}
      [] cmd = "getc " \o ANC_ch_id ->
           {<<Line("5", T, cmd), Line("OK", T, cmd)>>,
            <<Line("?", T, cmd), Line("OK", T, cmd)>>,
            <<Line("Wrong axis type", T, cmd), Line("ERROR", T, cmd)>>}
      [] OTHER -> {<<Line("OK", T, cmd)>>}

\* The line was sent in answer to the command cmd of thread T.
Answers(line, T, cmd) == line.th = T /\ line.cmd = cmd

Logged(log, ev) ==
    IF log # <<>> /\ log[Len(log)] = ev /\ ev = "read" THEN log ELSE Append(log, ev)

Acquired(T) == [owner |-> T, depth |-> lock.depth + 1]

Released == IF lock.depth <= 1 THEN Free ELSE [lock EXCEPT !.depth = @ - 1]

CanAcquire_not_reentrant(T) == lock.owner = 0

CanAcquire(T) == lock.owner \in {0, T}

\* 'with self.lock:' (anc_query), 'with self.lock():' (measure_capacitance,
\* wait_for_capacitance_measure, wait_for_stepping_end): an exception that
\* leaves the blocks of thread T releases what they acquired.
with_exit_keeps_lock(l, T) == l

with_exit(l, T) == IF l.owner = T THEN Free ELSE l

\* An exception leaves every 'with' block of the thread.
Raise(T, rec, e) ==
    /\ th' = [th EXCEPT ![T] = [rec EXCEPT !.pc = "done", !.err = e]]
    /\ lock' = with_exit(lock, T)

Call(T, op, pc, cmd, ret, block, timeout) ==
    /\ th[T].pc \in {"idle", "done"}
    /\ ncalls < MaxCalls
    /\ ncalls' = ncalls + 1
    /\ th' = [th EXCEPT ![T] = [IdleThread EXCEPT !.op = op, !.pc = pc, !.cmd = cmd,
                                  !.ret = ret, !.block = block, !.timeout = timeout]]
    /\ UNCHANGED <<lock, inbuf, cache>>
    /\ UNCHANGED fixed

\* ---- ANC300.anc_query ----------------------------------------------------
CallAncQuery(T) == Call(T, "anc_query", "aq_lock", "ver", "end", FALSE, 0)

AqLock(T) ==
    /\ th[T].pc = "aq_lock"
    /\ IF anc_query_with_lock
       THEN CanAcquire(T) /\ lock' = Acquired(T)
       ELSE UNCHANGED lock
    /\ th' = [th EXCEPT ![T].pc = "aq_write"]
    /\ UNCHANGED <<inbuf, ncalls, cache>>
    /\ UNCHANGED fixed

AqWrite(T) ==
    /\ th[T].pc = "aq_write"
    /\ \E r \in Response(T, th[T].cmd) : inbuf' = inbuf \o r
    /\ th' = [th EXCEPT ![T].pc = "aq_read", ![T].answer = <<>>,
                        ![T].own = TRUE, ![T].clean = (inbuf = <<>>),
                        ![T].log = Logged(@, th[T].cmd)]
    /\ UNCHANGED <<lock, ncalls, cache>>
    /\ UNCHANGED fixed

\* The read of one line; on 'OK' or 'ERROR' the lock is released and
\* (ans == 'OK', answer) goes back to the caller.
AqReadLine(T) ==
    /\ th[T].pc = "aq_read"
    /\ inbuf # <<>>
    /\ inbuf' = Tail(inbuf)
    /\ IF Head(inbuf).txt \in {"OK", "ERROR"}
       THEN /\ th' = [th EXCEPT ![T].own = @ /\ Answers(Head(inbuf), T, th[T].cmd),
                               ![T].res = <<[ok |-> Head(inbuf).txt = "OK",
                                             answer |-> th[T].answer]>>,
                               ![T].pc = IF th[T].ret = "end" THEN "done"
                                         ELSE th[T].ret]
            /\ lock' = IF anc_query_with_lock THEN Released ELSE lock
       ELSE /\ th' = [th EXCEPT ![T].own = @ /\ Answers(Head(inbuf), T, th[T].cmd),
                               ![T].answer = Append(@, Head(inbuf).txt)]
            /\ UNCHANGED lock
    /\ UNCHANGED <<ncalls, cache>>
    /\ UNCHANGED fixed

\* No line arrives within the deadline of the Backend (the controller has
\* none to send, or is late): read raises VisaIOError.
AqReadTimeout(T) ==
    /\ th[T].pc = "aq_read"
    /\ Raise(T, th[T], "VisaIOError")
    /\ UNCHANGED <<inbuf, ncalls, cache>>
    /\ UNCHANGED fixed

anc_query(T) ==
    CallAncQuery(T) \/ AqLock(T) \/ AqWrite(T) \/ AqReadLine(T) \/ AqReadTimeout(T)

\* ---- ANCModule.read_saved_capacitance -----------------------------------
CallReadSaved(T) ==
    Call(T, "read_saved_capacitance", "aq_lock", "getc " \o ANC_ch_id, "rsc", FALSE, 0)

\* check_answer(res, msg); val = msg.split('\r\n')[0];
\* float(val) if val != '?' else None
RscReturn(T) ==
    /\ th[T].pc = "rsc"
    /\ IF check_answer(th[T].res[1].ok, th[T].res[1].answer) # ""
       THEN Raise(T, [th[T] EXCEPT !.msg = check_answer_err(th[T].res[1].answer)],
                  "InvalidCommand")
       ELSE IF Len(th[T].res[1].answer) # 1
       THEN Raise(T, th[T], "ValueError")
       ELSE /\ th' = [th EXCEPT ![T].pc = "done",
                               ![T].res = <<ANCModule_post_get_saved_capacitance(
                                               th[T].res[1].answer[1])>>]
            /\ lock' = IF th[T].op = "measure_capacitance" THEN Released ELSE lock
    /\ UNCHANGED <<inbuf, ncalls, cache>>
    /\ UNCHANGED fixed

read_saved_capacitance(T) == CallReadSaved(T) \/ RscReturn(T)

\* ---- ANCModule.measure_capacitance --------------------------------------
CallMeasure(T) ==
    \E block \in BOOLEAN : \E timeout \in {0, 1} :
        /\ block \/ timeout = 0
        /\ Call(T, "measure_capacitance", "mc_lock", "", "", block, timeout)

\* with self.lock(): self.clear_cache(features=('saved_capacitance', 'mode'))
McLock(T) ==
    /\ th[T].pc = "mc_lock"
    /\ CanAcquire(T)
    /\ lock' = Acquired(T)
    /\ cache' = ClearEntries(cache, {"saved_capacitance", "mode"})
    /\ th' = [th EXCEPT ![T].pc = "aq_lock", ![T].cmd = "setm " \o ANC_ch_id \o " cap",
                        ![T].ret = "mc_block", ![T].log = Logged(@, "clear_cache")]
    /\ UNCHANGED <<inbuf, ncalls>>
    /\ UNCHANGED fixed

\* if block: ... ; otherwise the method ends and yields None.
McBlock(T) ==
    /\ th[T].pc = "mc_block"
    /\ IF th[T].block
       THEN /\ th' = [th EXCEPT ![T].pc = "wf_lock"]
            /\ UNCHANGED lock
       ELSE /\ th' = [th EXCEPT ![T].pc = "done", ![T].res = <<"None">>]
            /\ lock' = Released
    /\ UNCHANGED <<inbuf, ncalls, cache>>
    /\ UNCHANGED fixed

measure_capacitance(T) == CallMeasure(T) \/ McLock(T) \/ McBlock(T)

\* ---- ANCModule.wait_for_capacitance_measure -----------------------------
CallWait(T) ==
    \E timeout \in 0..MaxTimeout :
        Call(T, "wait_for_capacitance_measure", "wf_lock", "", "", FALSE, timeout)

WfLock(T) ==
    /\ th[T].pc = "wf_lock"
    /\ CanAcquire(T)
    /\ lock' = Acquired(T)
    /\ th' = [th EXCEPT ![T].pc = "wf_write"]
    /\ UNCHANGED <<inbuf, ncalls, cache>>
    /\ UNCHANGED fixed

\* The command each of the two waits writes.
WaitCommand(op) ==
    IF op = "wait_for_stepping_end" THEN "setpw " \o ANC_ch_id
    ELSE "capw " \o ANC_ch_id

\* self.parent.write('capw {}'.format(self.ch_id)), or 'setpw {}'; then
\* _wait_for starts: t = 0
WfWrite(T) ==
    /\ th[T].pc = "wf_write"
    /\ \E r \in Response(T, WaitCommand(th[T].op)) : inbuf' = inbuf \o r
    /\ th' = [th EXCEPT ![T].pc = "wf_loop", ![T].t = 0, ![T].reads = 0,
                        ![T].log = Logged(@, WaitCommand(th[T].op))]
    /\ UNCHANGED <<lock, ncalls, cache>>
    /\ UNCHANGED fixed

wait_for_capacitance_measure(T) == CallWait(T) \/ WfLock(T) \/ WfWrite(T)

\* ---- ANCStepper.wait_for_stepping_end -------------------------------------
CallWaitStepping(T) ==
    \E timeout \in 0..MaxTimeout :
        Call(T, "wait_for_stepping_end", "wf_lock", "", "", FALSE, timeout)

wait_for_stepping_end(T) == CallWaitStepping(T) \/ WfLock(T) \/ WfWrite(T)

\* ---- ANCModule._wait_for --------------------------------------------------
CountRead(n) == IF n < ReadsCap THEN n + 1 ELSE n

\* 'while t < timeout' is false: the wait ends, and so does the 'with' block
\* of wait_for_capacitance_measure; measure_capacitance goes on with
\* read_saved_capacitance.
WaitForExpired(T) ==
    /\ th[T].pc = "wf_loop"
    /\ ~(th[T].t < th[T].timeout)
    /\ lock' = Released
    /\ th' = IF th[T].op = "measure_capacitance"
             THEN [th EXCEPT ![T].pc = "aq_lock", ![T].cmd = "getc " \o ANC_ch_id,
                             ![T].ret = "rsc", ![T].out = "expired"]
             ELSE [th EXCEPT ![T].pc = "done", ![T].res = <<"None">>,
                             ![T].out = "expired"]
    /\ UNCHANGED <<inbuf, ncalls, cache>>
    /\ UNCHANGED fixed

\* msg = self.parent.read() yields a line; check_answer(msg) follows.
WaitForReadLine(T) ==
    /\ th[T].pc = "wf_loop"
    /\ th[T].t < th[T].timeout
    /\ inbuf # <<>>
    /\ inbuf' = Tail(inbuf)
    /\ IF WaitFor_check_answer_arguments # check_answer_parameters
       THEN Raise(T, [th[T] EXCEPT !.reads = CountRead(@), !.out = Head(inbuf).txt,
                                   !.log = Logged(@, "read")], "TypeError")
       ELSE /\ th' = [th EXCEPT ![T].reads = CountRead(@), ![T].out = Head(inbuf).txt,
                               ![T].log = Logged(@, "read")]
            /\ UNCHANGED lock
    /\ UNCHANGED <<ncalls, cache>>
    /\ UNCHANGED fixed

\* self.parent.read() raises VisaIOError: no line arrived within the
\* deadline (VI_ERROR_TMO), or the connection failed.
WaitForReadError(T) ==
    /\ th[T].pc = "wf_loop"
    /\ th[T].t < th[T].timeout
    /\ \E code \in {"VI_ERROR_TMO", "VI_ERROR_CONN_LOST"} :
         IF WaitFor_except(code) = "raise"
         THEN Raise(T, [th[T] EXCEPT !.reads = CountRead(@), !.out = code,
                                     !.log = Logged(@, "read")], "VisaIOError")
         ELSE /\ \E e \in Elapsed :
                   th' = [th EXCEPT ![T].reads = CountRead(@), ![T].out = code,
                                    ![T].t = WaitFor_elapsed(@, e),
                                    ![T].log = Logged(@, "read")]
              /\ UNCHANGED lock
    /\ UNCHANGED <<inbuf, ncalls, cache>>
    /\ UNCHANGED fixed

WaitFor(T) == WaitForExpired(T) \/ WaitForReadLine(T) \/ WaitForReadError(T)

\* ---- ANCModule.stop_motion ------------------------------------------------
CallStopMotion(T) ==
    Call(T, "stop_motion", "aq_lock", "stop " \o ANC_ch_id, "ca", FALSE, 0)

\* res, msg = self.parent.anc_query(...); check_answer(res, msg): the end of
\* stop_motion and of step, which return nothing.
CheckAnswerReturn(T) ==
    /\ th[T].pc = "ca"
    /\ IF check_answer(th[T].res[1].ok, th[T].res[1].answer) # ""
       THEN Raise(T, [th[T] EXCEPT !.msg = check_answer_err(th[T].res[1].answer)],
                  "InvalidCommand")
       ELSE /\ th' = [th EXCEPT ![T].pc = "done", ![T].res = <<"None">>]
            /\ UNCHANGED lock
    /\ UNCHANGED <<inbuf, ncalls, cache>>
    /\ UNCHANGED fixed

stop_motion(T) == CallStopMotion(T) \/ CheckAnswerReturn(T)

\* ---- ANCStepper.step -------------------------------------------------------
\* @Action(checks='self.mode == "Step";direction in ("Up", "Down"'): the
\* expressions between the ';', each as the list of its tokens.
ANCStepper_step_checks ==
    << <<"self.mode", "==", "Step">>,
       <<"direction", "in", "(", "Up", ",", "Down">> >>

Count(tokens, x) == Cardinality({i \in 1..Len(tokens) : tokens[i] = x})

\* An expression with a parenthesis left open is not one Python compiles.
Compiles(tokens) == Count(tokens, "(") = Count(tokens, ")")

\* What the two expressions say, of the mode read and the direction given.
StepChecksPass(mode, direction) ==
    mode = <<"Step">> /\ direction \in {"Up", "Down"}

\* steps = 'c' if steps < 1 else steps; cmd = 'stepu' if direction == 'Up'
\* else 'stepd'; cmd += ' {} {}'; cmd.format(self.ch_id, steps)
StepCommand(direction, steps) ==
    (IF direction = "Up" THEN "stepu" ELSE "stepd") \o " " \o ANC_ch_id \o " "
        \o (IF steps < 1 THEN "c" ELSE PyStr(steps))

StepDirections == {"Up", "Down", "Left"}

StepCounts == {0, 2}

CallStep(T) ==
    \E direction \in StepDirections : \E steps \in StepCounts :
        /\ th[T].pc \in {"idle", "done"}
        /\ ncalls < MaxCalls
        /\ ncalls' = ncalls + 1
        /\ th' = [th EXCEPT ![T] = [IdleThread EXCEPT !.op = "step", !.pc = "st_check",
                                      !.args = <<direction, steps>>]]
        /\ UNCHANGED <<lock, inbuf, cache>>
        /\ UNCHANGED fixed

\* The checks of step, made before its body: an expression that does not
\* compile raises SyntaxError, at the latest when it is its turn (the first
\* one may have failed before); a check that is false raises the
\* precondition error.  The mode is read from its cache entry.
StepChecked(T) ==
    /\ th[T].pc = "st_check"
    /\ cache["mode"] # NoVal
    /\ IF \E i \in 1..Len(ANCStepper_step_checks) : ~Compiles(ANCStepper_step_checks[i])
       THEN \E e \in (IF cache["mode"] = <<"Step">> THEN {"SyntaxError"}
                      ELSE {"SyntaxError", "PreconditionError"}) :
                Raise(T, th[T], e)
       ELSE IF ~StepChecksPass(cache["mode"], th[T].args[1])
       THEN Raise(T, th[T], "PreconditionError")
       ELSE /\ th' = [th EXCEPT ![T].pc = "aq_lock", ![T].ret = "ca",
                               ![T].cmd = StepCommand(th[T].args[1], th[T].args[2])]
            /\ UNCHANGED lock
    /\ UNCHANGED <<inbuf, ncalls, cache>>
    /\ UNCHANGED fixed

step(T) == CallStep(T) \/ StepChecked(T)

ThreadStep(T) ==
    \/ AqLock(T) \/ AqWrite(T) \/ AqReadLine(T) \/ AqReadTimeout(T)
    \/ RscReturn(T) \/ McLock(T) \/ McBlock(T) \/ WfLock(T) \/ WfWrite(T)
    \/ WaitFor(T) \/ CheckAnswerReturn(T) \/ StepChecked(T)

AInit ==
    /\ drv = "ANCStepper"
    /\ caching_allowed = TRUE
    /\ cache = [mode |-> <<"Step">>, saved_capacitance |-> <<"5">>]
    /\ limCache = [n \in LimitNames("ANCStepper") |-> NoVal]
    /\ dev = [mode |-> "stp", saved_capacitance |-> "5"]
    /\ last = NoOp
    /\ AIdle
    /\ CIdle

\* Threads calling anc_query, read_saved_capacitance and measure_capacitance
\* (which waits through wait_for_capacitance_measure when block is true).
ANext ==
    \/ \E T \in Threads : anc_query(T)
    \/ \E T \in Threads : read_saved_capacitance(T)
    \/ \E T \in Threads : measure_capacitance(T)
    \/ \E T \in Threads : WfLock(T) \/ WfWrite(T)
    \/ \E T \in Threads : WaitFor(T)

SpecANC == AInit /\ [][ANext]_vars

\* Threads calling wait_for_capacitance_measure.
WNext ==
    \/ \E T \in Threads : wait_for_capacitance_measure(T)
    \/ \E T \in Threads : WaitFor(T)

SpecWait == AInit /\ [][WNext]_vars

\* A stepper whose mode has been read: the entry holds either mode.
SInit ==
    /\ drv = "ANCStepper"
    /\ caching_allowed = TRUE
    /\ \E m \in DOMAIN ANCStepper_mode_mapping :
           /\ cache = [mode |-> <<m>>, saved_capacitance |-> NoVal]
           /\ dev = [mode |-> ANCStepper_mode_mapping[m], saved_capacitance |-> "?"]
    /\ limCache = [n \in LimitNames("ANCStepper") |-> NoVal]
    /\ last = NoOp
    /\ AIdle
    /\ CIdle

\* Threads calling step, stop_motion and anc_query.
SNext ==
    \/ \E T \in Threads : anc_query(T)
    \/ \E T \in Threads : stop_motion(T)
    \/ \E T \in Threads : step(T)

SpecStep == SInit /\ [][SNext]_vars

\* Threads calling every operation that acquires the lock.
LNext ==
    \/ \E T \in Threads : anc_query(T)
    \/ \E T \in Threads : read_saved_capacitance(T)
    \/ \E T \in Threads : measure_capacitance(T)
    \/ \E T \in Threads : wait_for_capacitance_measure(T)
    \/ \E T \in Threads : wait_for_stepping_end(T)
    \/ \E T \in Threads : WaitFor(T)

SpecLock == AInit /\ [][LNext]_vars

\* The scheduler lets every thread that can take a step take one.
FairSpecWait == SpecWait /\ \A T \in Threads : WF_vars(ThreadStep(T))

(***************************************************************************)
(* Properties of the ANC300 protocol                                       *)
(***************************************************************************)

\* The thread is between the write of a command and the end of the reads of
\* its answer.
InExchange(T) == th[T].pc \in {"aq_read", "wf_loop"}

C5_TerminalResponseReturns ==
    \A T \in Threads :
        (th[T].op = "wait_for_capacitance_measure" /\ th[T].out = "OK")
          => (th[T].pc = "done" /\ th[T].err = "")

\* C6: in _wait_for a read that fails with the receive timeout is followed by
\* another read as long as the elapsed time is below timeout (and by no read
\* once it is not); a read that fails with another Backend error ends
\* _wait_for at once with that error.
C6_RetryOnTimeoutOnly ==
    [][\A T \in Threads :
         /\ (th'[T].out = "VI_ERROR_CONN_LOST")
               => (th'[T].pc = "done" /\ th'[T].err = "VisaIOError")
         /\ (th'[T].out = "VI_ERROR_TMO")
               => (th'[T].pc = "wf_loop" /\ th'[T].err = "")
         /\ (th[T].pc = "wf_loop" /\ th[T].out = "VI_ERROR_TMO" /\ th'[T] # th[T])
               => IF th[T].t < th[T].timeout
                  THEN th'[T].reads = th[T].reads + 1
                  ELSE th'[T].reads = th[T].reads /\ th'[T].out = "expired"
      ]_vars

C6_Witness ==
    /\ th[1].out = "VI_ERROR_CONN_LOST" /\ th[1].reads = 2
    /\ th[1].pc = "done" /\ th[1].err = "VisaIOError"

\* C7: every call of _wait_for ends: the reads are at most timeout many (each
\* timed-out read takes at least one tick), and when the elapsed time reaches
\* timeout the call returns without raising.
C7_WaitTerminates ==
    /\ [](\A T \in Threads : th[T].reads <= th[T].timeout)
    /\ [](\A T \in Threads :
            (th[T].out = "expired")
              => (th[T].t >= th[T].timeout /\ th[T].pc = "done" /\ th[T].err = ""))
    /\ \A T \in Threads : (th[T].pc = "wf_loop") ~> (th[T].pc = "done")

C7_Witness ==
    /\ th[1].out = "expired" /\ th[1].reads = 2 /\ th[1].timeout = 2
    /\ th[1].pc = "done" /\ th[1].err = ""

\* The error of check_answer holds the line txt of the device.
Quotes(msg, txt) ==
    \E j \in 1..Len(msg) : \E k \in 1..Len(msg[j]) : msg[j][k] = txt

\* C13: when an exchange ends with 'ERROR', the error check_answer raises
\* holds every line the controller sent before the terminator, and is not
\* empty when there was such a line.
C13_ErrorCarriesLines ==
    \A T \in Threads :
        (th[T].err = "InvalidCommand" /\ th[T].res[1].answer # <<>>)
          => /\ th[T].msg # <<>>
             /\ \A i \in 1..Len(th[T].res[1].answer) :
                    Quotes(th[T].msg, th[T].res[1].answer[i])

\* The operation of thread T is over: it returned, or it raised.
Over(T) == th[T].pc = "done"

\* C17: once an operation that acquires the lock (anc_query,
\* measure_capacitance, wait_for_capacitance_measure, wait_for_stepping_end)
\* has returned or raised, also when a read raised inside anc_query or
\* _wait_for, its thread holds the lock no more: a thread that holds the lock
\* is inside an operation, and when no operation is under way the lock is free
\* for any thread.
C17_LockReleased ==
    /\ \A T \in Threads : (Over(T) \/ th[T].pc = "idle") => lock.owner # T
    /\ (\A T \in Threads : Over(T) \/ th[T].pc = "idle")
           => (lock = Free /\ \A T \in Threads : CanAcquire(T))

C17_Witness ==
    /\ Over(1) /\ th[1].op = "wait_for_stepping_end"
    /\ th[1].err = "VisaIOError" /\ th[1].out = "VI_ERROR_CONN_LOST"
    /\ Over(2) /\ th[2].op = "anc_query" /\ th[2].err = "VisaIOError"
    /\ lock = Free

\* C18: the lock is held only while a command is written and the lines of
\* its answer are read: the step that runs clear_cache in measure_capacitance
\* and the step that sleeps between two polls of _wait_for are made by a
\* thread that does not hold the lock.
C18_LockOnlyDuringIO ==
    [][\A T \in Threads :
         /\ (th[T].pc = "mc_lock" /\ th'[T].pc # "mc_lock")
               => lock'.owner # T
         /\ (th[T].pc = "wf_loop" /\ th'[T] # th[T] /\ th'[T].pc = "wf_loop"
                 /\ th'[T].out = "VI_ERROR_TMO")
               => lock.owner # T
      ]_vars

\* A step command was written by thread T.
StepSent(T) ==
    \E i \in 1..Len(th[T].log) :
        th[T].log[i] \in {StepCommand(d, k) : d \in StepDirections, k \in StepCounts}

C8_MeasureOrder ==
    \A T \in Threads :
        (th[T].op = "measure_capacitance" /\ th[T].pc = "done"
            /\ th[T].err \notin {"VisaIOError", "InvalidCommand", "ValueError"})
          => /\ th[T].err = ""
             /\ IF th[T].block
                THEN /\ th[T].log \in
                          {<<"clear_cache", "setm 1 cap", "capw 1", "read", "getc 1">>,
                           <<"clear_cache", "setm 1 cap", "capw 1", "getc 1">>}
                     /\ th[T].res \in {<<"5">>, <<"None">>}
                ELSE /\ th[T].log = <<"clear_cache", "setm 1 cap">>
                     /\ th[T].res = <<"None">>


\* Thread T is inside the 'with self.lock():' block of measure_capacitance.
InMeasure(T) ==
    th[T].op = "measure_capacitance" /\ th[T].pc \notin {"idle", "mc_lock", "done"}

E3631A_output == {"P6V", "P25V", "N25V"}

\* model_E3631A.py _limits_voltage
E3631A_limits_voltage(id) ==
    CASE id = "P6V"  -> FloatLimitsValidator(0, mV(6180), mV(1))
      [] id = "P25V" -> FloatLimitsValidator(0, mV(25750), mV(10))
      [] OTHER       -> FloatLimitsValidator(-mV(25750), 0, mV(10))

\* model_E3631A.py _post_setattr_voltage: the channels indexed through the
\* parent, in order, to clear their voltage entry.
E3631A_post_setattr_voltage_nothing(id) == <<>>

E3631A_post_setattr_voltage_all(id) == <<"P25V", "N25V">>

E3631A_post_setattr_voltage(id) ==
    IF id # "P6V" THEN <<"P25V", "N25V">> ELSE <<>>

\* A new channel instance: its id and its own cache.
NewChannel(id) == [id |-> id, cache |-> [voltage |-> NoVal]]

Indexed(memo, os, inst, err) == [output |-> memo, objs |-> os, inst |-> inst, err |-> err]

\* parent.output[id]: the instance made for id at the first access is kept
\* in the mapping of the parent and handed out again.
ChannelInstance(memo, os, id) ==
    IF id \notin E3631A_output THEN Indexed(memo, os, 0, "UnknownChannelError")
    ELSE IF memo[id] # 0 THEN Indexed(memo, os, memo[id], "")
    ELSE Indexed([memo EXCEPT ![id] = Len(os) + 1], Append(os, NewChannel(id)),
                 Len(os) + 1, "")

\* instance.clear_cache(features=('voltage',)) on the instance just indexed
ClearedVoltage(x) ==
    [output |-> x.output,
     objs |-> [x.objs EXCEPT ![x.inst] = [@ EXCEPT !.cache = [voltage |-> NoVal]]]]

ClearedVoltageThen(x, id) == ClearedVoltage(ChannelInstance(x.output, x.objs, id))

\* The calls of _post_setattr_voltage, one after the other.
PostSetattr(x, ids) ==
    IF ids = <<>> THEN x
    ELSE IF Len(ids) = 1
    THEN ClearedVoltageThen(x, ids[1])
    ELSE ClearedVoltageThen(ClearedVoltageThen(x, ids[1]), ids[2])

\* The names under which the caller keeps instances, the ids it asks for and
\* the voltages it sets.
RefNames == {"a", "b"}

E3631A_ids == E3631A_output \cup {"P12V"}

E3631A_levels == {Volt(0), Volt(1)}

EInit ==
    /\ drv = "E3631A"
    /\ caching_allowed \in BOOLEAN
    /\ cache = <<>>
    /\ limCache = <<>>
    /\ dev = [id \in E3631A_output |-> Volt(0)]
    /\ last = NoOp
    /\ AIdle
    /\ output = [id \in E3631A_output |-> 0]
    /\ objs = <<>>
    /\ ref = [n \in RefNames |-> 0]
    /\ call = NoCall

\* What the operations on the channels of the E3631A leave alone.
efixed == <<drv, caching_allowed, cache, limCache, th, lock, inbuf, ncalls, call>>

EIndexReturns(n, id, x) ==
    /\ output' = x.output
    /\ objs' = x.objs
    /\ ref' = IF x.err = "" THEN [ref EXCEPT ![n] = x.inst] ELSE ref
    /\ last' = OpRecord("index", "", <<id, n>>, NoVal, x.err, <<>>, "none", NoVal)
    /\ UNCHANGED dev
    /\ UNCHANGED efixed

\* n = parent.output[id]
EIndex ==
    \E n \in RefNames : \E id \in E3631A_ids :
        EIndexReturns(n, id, ChannelInstance(output, objs, id))

\* value = n.voltage
EGet ==
    \E n \in RefNames :
        /\ ref[n] # 0
        /\ IF CacheHit(objs[ref[n]].cache, "voltage")
           THEN /\ last' = OpRecord("get", "voltage", <<objs[ref[n]].id, n>>,
                                    objs[ref[n]].cache.voltage, "", <<>>, "none",
                                    objs[ref[n]].cache.voltage)
                /\ UNCHANGED objs
           ELSE /\ last' = OpRecord("get", "voltage", <<objs[ref[n]].id, n>>,
                                    <<dev[objs[ref[n]].id]>>, "",
                                    <<Cmd("INSTR:SELECT {ch_id};VOLT?", objs[ref[n]].id, <<>>)>>,
                                    "none", objs[ref[n]].cache.voltage)
                /\ objs' = IF caching_allowed
                           THEN [objs EXCEPT ![ref[n]] =
                                   [@ EXCEPT !.cache =
                                       [voltage |-> <<dev[objs[ref[n]].id]>>]]]
                           ELSE objs
        /\ UNCHANGED <<output, ref, dev>>
        /\ UNCHANGED efixed

\* The end of a set that went through: _post_setattr_voltage has run (x), then
\* the value is stored in the entry of the instance.
ESetStored(i, v, x) ==
    /\ output' = x.output
    /\ objs' = IF caching_allowed
               THEN [x.objs EXCEPT ![i] = [@ EXCEPT !.cache = [voltage |-> <<v>>]]]
               ELSE x.objs

\* n.voltage = v
ESet ==
    \E n \in RefNames : \E v \in E3631A_levels : \E code \in {0, 1} :
        /\ ref[n] # 0
        /\ IF ~Validate(E3631A_limits_voltage(objs[ref[n]].id), v)
           THEN /\ last' = OpRecord("set", "voltage", <<objs[ref[n]].id, n, v>>, NoVal,
                                    "OutOfRangeError", <<>>, "none", NoVal)
                /\ UNCHANGED <<output, objs, dev>>
           ELSE /\ dev' = IF code = 0 THEN [dev EXCEPT ![objs[ref[n]].id] = v] ELSE dev
                /\ IF default_check_operation("E3631A", code)
                   THEN /\ ESetStored(ref[n], v,
                              PostSetattr([output |-> output, objs |-> objs],
                                  E3631A_post_setattr_voltage(objs[ref[n]].id)))
                        /\ last' = OpRecord("set", "voltage", <<objs[ref[n]].id, n, v>>,
                                            NoVal, "", <<"VOLT {}", "SYST:ERR?">>,
                                            "none", NoVal)
                   ELSE /\ last' = OpRecord("set", "voltage", <<objs[ref[n]].id, n, v>>,
                                            NoVal, "DeviceError",
                                            <<"VOLT {}", "SYST:ERR?">>, "none", NoVal)
                        /\ UNCHANGED <<output, objs>>
        /\ UNCHANGED ref
        /\ UNCHANGED efixed

\* The instrument changes on its own (front panel).
EDeviceChange ==
    \E id \in {"P25V"} : \E v \in E3631A_levels :
        /\ dev[id] # v
        /\ dev' = [dev EXCEPT ![id] = v]
        /\ UNCHANGED <<output, objs, ref, last>>
        /\ UNCHANGED efixed

ENext == EIndex \/ EGet \/ ESet \/ EDeviceChange

SpecE3631A == EInit /\ [][ENext]_vars


\* C11: every indexing parent.output[id] hands out the one instance the
\* parent keeps for id, so all the names of a channel see the same cache; the
\* clear_cache that a set of voltage on P25V or N25V makes through
\* parent.output[...] removes the voltage entry seen through every name of the
\* other of the two channels.
C11_SameInstance ==
    /\ \A i, j \in 1..Len(objs) : (objs[i].id = objs[j].id) => (i = j)
    /\ \A id \in E3631A_output : (output[id] # 0) => (objs[output[id]].id = id)
    /\ \A n \in RefNames : (ref[n] # 0) => (output[objs[ref[n]].id] = ref[n])
    /\ \A n, m \in RefNames :
         (ref[n] # 0 /\ ref[m] # 0 /\ objs[ref[n]].id = objs[ref[m]].id)
           => (objs[ref[n]].cache = objs[ref[m]].cache)
    /\ (last.op = "set" /\ last.err = "" /\ last.arg[1] \in {"P25V", "N25V"})
          => /\ \A id \in {"P25V", "N25V"} \ {last.arg[1]} :
                   output[id] # 0 /\ objs[output[id]].cache.voltage = NoVal
             /\ \A n \in RefNames :
                   (ref[n] # 0 /\ objs[ref[n]].id \in {"P25V", "N25V"} \ {last.arg[1]})
                     => (objs[ref[n]].cache.voltage = NoVal)

C11_Witness ==
    /\ caching_allowed
    /\ ref["a"] # 0 /\ ref["a"] = ref["b"] /\ objs[ref["a"]].id = "P25V"
    /\ last.op = "get" /\ last.arg = <<"P25V", "b">>
    /\ last.val = <<Volt(1)>> /\ last.cmds = <<>>

\* The two outputs that track each other.
Tracking == {"P25V", "N25V"}

\* C25 as stated: after a set of voltage on P25V or N25V that went through,
\* the voltage entries of both P25V and N25V are absent.
C25_BothAbsent ==
    (last.op = "set" /\ last.err = "" /\ last.arg[1] \in Tracking)
        => \A id \in Tracking :
               output[id] # 0 /\ objs[output[id]].cache.voltage = NoVal

\* C25: after a set of voltage to v on P25V or N25V that went through, the
\* voltage entry of the other of the two outputs is absent and the next get on
\* it makes a fresh exchange, while the entry of the output that was set holds
\* v when caching is allowed (and is absent otherwise); a set on P6V leaves the
\* instances and the entries of P25V and N25V as they were.
C25_TrackingCleared ==
    [][/\ (last'.op = "set" /\ last'.err = "" /\ last'.arg[1] \in Tracking)
          => /\ \A id \in Tracking \ {last'.arg[1]} :
                    output'[id] # 0 /\ objs'[output'[id]].cache.voltage = NoVal
             /\ output'[last'.arg[1]] # 0
             /\ objs'[output'[last'.arg[1]]].cache.voltage =
                    IF caching_allowed THEN <<last'.arg[3]>> ELSE NoVal
       /\ (last'.op = "set" /\ last'.err = "" /\ last'.arg[1] = "P6V")
          => \A id \in Tracking :
                 /\ output'[id] = output[id]
                 /\ (output[id] # 0) => (objs'[output[id]] = objs[output[id]])
       /\ (last'.op = "get" /\ last.op = "set" /\ last.err = ""
              /\ last.arg[1] \in Tracking
              /\ last'.arg[1] \in Tracking \ {last.arg[1]})
          => /\ last'.cmds = <<Cmd("INSTR:SELECT {ch_id};VOLT?", last'.arg[1], <<>>)>>
             /\ last'.val = <<dev[last'.arg[1]]>>
      ]_vars

\* A set on P25V went through with caching allowed, and the get on N25V that
\* followed made an exchange while the entry of P25V holds the value set.
C25_Witness ==
    /\ caching_allowed
    /\ last.op = "get" /\ last.arg[1] = "N25V" /\ last.cmds # <<>>
    /\ last.after = "voltage" /\ last.afterArg # NoVal
    /\ last.afterArg[1] = "P25V" /\ last.afterArg[3] = Volt(1)
    /\ output["P25V"] # 0
    /\ objs[output["P25V"]].cache.voltage = <<Volt(1)>>

(***************************************************************************)
(* One output of a Keysight source, its trigger mode and its voltage       *)
(* (model_E3631A.py, model_E363XA.py)                                      *)
(***************************************************************************)

\* base/dc_sources.py: mode = Unicode(values=('disabled', 'enabled'))
DCSourceTriggerSubsystem_mode_values == {"disabled", "enabled"}

\* trigger._get_mode: return 'disabled'
Keysight_trigger_get_mode == "disabled"

\* trigger._set_mode: pass.  The commands it sends.
Keysight_trigger_set_mode(value) == <<>>

\* getter=conditional('"VOLT?" if driver.trigger.mode != "enabled" else
\* "VOLT:TRIG?"'), setter=conditional('"VOLT {}" if ... else "VOLT:TRIG {}"')
Keysight_voltage_form(mode) == IF mode # "enabled" THEN "VOLT" ELSE "VOLT:TRIG"

Keysight_voltage_getter(mode) == Keysight_voltage_form(mode) \o "?"

Keysight_voltage_setter(mode) == Keysight_voltage_form(mode) \o " {}"

\* driver.trigger.mode, read while the template is chosen: a Feature get of
\* trigger.mode (the entry, or _get_mode whose result is then stored).
TriggerModeRead(c) ==
    IF CacheHit(c, "trigger.mode") THEN [val |-> c["trigger.mode"][1], cache |-> c]
    ELSE [val |-> Keysight_trigger_get_mode,
          cache |-> IF caching_allowed
                    THEN [c EXCEPT !["trigger.mode"] = <<Keysight_trigger_get_mode>>]
                    ELSE c]

KInit ==
    /\ drv = "E3631A"
    /\ caching_allowed \in BOOLEAN
    /\ cache = [f \in {"voltage", "trigger.mode"} |-> NoVal]
    /\ limCache = <<>>
    /\ dev \in [{"VOLT", "VOLT:TRIG"} -> E3631A_levels]
    /\ last = NoOp
    /\ AIdle
    /\ CIdle

kfixed == <<drv, caching_allowed, limCache, th, lock, inbuf, ncalls, output, objs,
            ref, call>>

\* value = output.trigger.mode
KGetMode ==
    /\ cache' = TriggerModeRead(cache).cache
    /\ last' = OpRecord("get", "trigger.mode", NoVal, <<TriggerModeRead(cache).val>>,
                        "", <<>>, "none", cache["trigger.mode"])
    /\ UNCHANGED dev
    /\ UNCHANGED kfixed

\* output.trigger.mode = value: the value is one of the declared ones,
\* _set_mode runs, the hook of the root checks the operation.
KSetMode ==
    \E value \in DCSourceTriggerSubsystem_mode_values : \E code \in {0, 1} :
        /\ IF default_check_operation("E3631A", code)
           THEN /\ cache' = IF caching_allowed
                            THEN [cache EXCEPT !["trigger.mode"] = <<value>>]
                            ELSE cache
                /\ last' = [OpRecord("set", "trigger.mode", <<value>>, NoVal, "",
                                     Keysight_trigger_set_mode(value)
                                         \o <<Cmd("SYST:ERR?", "", <<>>)>>,
                                     "none", cache["trigger.mode"])
                              EXCEPT !.trig = value, !.code = code]
           ELSE /\ UNCHANGED cache
                /\ last' = [OpRecord("set", "trigger.mode", <<value>>, NoVal,
                                     "DeviceError",
                                     Keysight_trigger_set_mode(value)
                                         \o <<Cmd("SYST:ERR?", "", <<>>)>>,
                                     "none", cache["trigger.mode"])
                              EXCEPT !.code = code]
        /\ UNCHANGED dev
        /\ UNCHANGED kfixed

\* value = output.voltage, m being the outcome of reading trigger.mode
KGetVoltageIn(m) ==
    /\ cache' = IF caching_allowed
                THEN [m.cache EXCEPT !["voltage"] = <<dev[Keysight_voltage_form(m.val)]>>]
                ELSE m.cache
    /\ last' = [OpRecord("get", "voltage", NoVal,
                         <<dev[Keysight_voltage_form(m.val)]>>, "",
                         <<Cmd("INSTR:SELECT {ch_id};" \o Keysight_voltage_getter(m.val),
                               "P6V", <<>>)>>,
                         "none", cache["voltage"])
                  EXCEPT !.vform = Keysight_voltage_form(m.val)]

KGetVoltage ==
    /\ IF CacheHit(cache, "voltage")
       THEN /\ last' = OpRecord("get", "voltage", NoVal, cache["voltage"], "", <<>>,
                                "none", cache["voltage"])
            /\ UNCHANGED cache
       ELSE KGetVoltageIn(TriggerModeRead(cache))
    /\ UNCHANGED dev
    /\ UNCHANGED kfixed

\* output.voltage = v, m being the outcome of reading trigger.mode
KSetVoltageIn(v, code, m) ==
    /\ dev' = IF code = 0 THEN [dev EXCEPT ![Keysight_voltage_form(m.val)] = v] ELSE dev
    /\ IF default_check_operation("E3631A", code)
       THEN /\ cache' = IF caching_allowed THEN [m.cache EXCEPT !["voltage"] = <<v>>]
                        ELSE m.cache
            /\ last' = [OpRecord("set", "voltage", <<v>>, NoVal, "",
                                 <<Cmd("INSTR:SELECT {ch_id};"
                                           \o Keysight_voltage_setter(m.val), "P6V", <<v>>),
                                   Cmd("SYST:ERR?", "", <<>>)>>,
                                 "none", cache["voltage"])
                          EXCEPT !.vform = Keysight_voltage_form(m.val), !.code = code]
       ELSE /\ cache' = m.cache
            /\ last' = [OpRecord("set", "voltage", <<v>>, NoVal, "DeviceError",
                                 <<Cmd("INSTR:SELECT {ch_id};"
                                           \o Keysight_voltage_setter(m.val), "P6V", <<v>>),
                                   Cmd("SYST:ERR?", "", <<>>)>>,
                                 "none", cache["voltage"])
                          EXCEPT !.code = code]

KSetVoltage ==
    \E v \in E3631A_levels : \E code \in {0, 1} :
        /\ Validate(E3631A_limits_voltage("P6V"), v)
        /\ KSetVoltageIn(v, code, TriggerModeRead(cache))
        /\ UNCHANGED kfixed

\* output.clear_cache()
KClearCache ==
    /\ cache' = [f \in DOMAIN cache |-> NoVal]
    /\ last' = OpRecord("clear_cache", "", NoVal, NoVal, "", <<>>, "none", NoVal)
    /\ UNCHANGED dev
    /\ UNCHANGED kfixed

KNext == KGetMode \/ KSetMode \/ KGetVoltage \/ KSetVoltage \/ KClearCache

SpecKeysight == KInit /\ [][KNext]_vars

\* The command of the voltage exchange of the last operation, without the
\* channel selection.
VoltageCommandIs(tmpl) ==
    /\ last.cmds # <<>>
    /\ last.cmds[1][1] = "INSTR:SELECT {ch_id};" \o tmpl

\* C23: whatever the sets of trigger.mode, the cache clears and the accesses
\* to voltage made before, the command of a get or set of voltage is the
\* 'VOLT:TRIG' form if and only if the most recent successful set of
\* trigger.mode was 'enabled', and a voltage entry obtained under one trigger
\* mode is never returned from the cache as the voltage under the other.
C23_TriggeredForm ==
    (last.feat = "voltage" /\ last.op \in {"get", "set"}) =>
        /\ (last.op = "get" /\ last.cmds # <<>>) =>
               VoltageCommandIs(IF last.trig = "enabled" THEN "VOLT:TRIG?" ELSE "VOLT?")
        /\ (last.op = "set") =>
               VoltageCommandIs(IF last.trig = "enabled" THEN "VOLT:TRIG {}"
                                ELSE "VOLT {}")
        /\ (last.op = "get" /\ last.cmds = <<>>) =>
               last.vform = IF last.trig = "enabled" THEN "VOLT:TRIG" ELSE "VOLT"

(***************************************************************************)
(* The declarations of the drivers, evaluated on their own                 *)
(***************************************************************************)

\* ---- mappings ---------------------------------------------------------
\* True and False are written "True" and "False"; a mapping given as two
\* tables is the pair of them, a mapping given as one table is that table.
PowerOn_poweron_status_clear_mapping_collapsed ==
    ("True" :> "1") @@ ("False" :> "1")

PowerOn_poweron_status_clear_mapping == ("True" :> "1") @@ ("False" :> "0")

DCPowerSource_function_mapping == ("Voltage" :> "") @@ ("Current" :> "")

SCPIDCPowerSource_function_mapping ==
    ("Voltage" :> "VOLT") @@ ("Current" :> "CURR")

SCPIDCPowerSource_output_mapping == ("True" :> 1) @@ ("False" :> 0)

KeysightE3631A_trigger_source_mapping ==
    ("immediate" :> "IMM") @@ ("bus" :> "BUS")

Y7651_function_mapping ==
    <<("Voltage" :> "1") @@ ("Current" :> "5"),
      ("V" :> "Voltage") @@ ("A" :> "Current")>>

Y7651_enabled_mapping == ("True" :> 1) @@ ("False" :> 0)

Y7651_current_range_mapping == (mV(1) :> 4) @@ (mV(10) :> 5) @@ (mV(100) :> 6)

BE2100_voltage_filter_mapping == ("Slow" :> 0) @@ ("Fast" :> 1)

BE2100_trigger_mode_mapping ==
    ("off" :> "0") @@ ("slope" :> "1") @@ ("stair" :> "2") @@
    ("step" :> "4") @@ ("auto" :> "5")

\* The features declared with a mapping, by class and name.
MappedFeatures ==
    {"ANCStepper.mode", "PowerOn.poweron_status_clear",
     "DCPowerSource.output.function", "SCPIDCPowerSource.function",
     "SCPIDCPowerSource.output", "KeysightE3631A.output.trigger.source",
     "YokogawaGS200.output.mode", "Yokogawa7651.output.function",
     "Yokogawa7651.output.enabled", "Yokogawa7651.output.voltage_range",
     "Yokogawa7651.output.current_range", "BE2100.voltage_filter",
     "BE2100.trigger.mode"}

\* The tables of the declaration: one, or the two of a pair.
MappingTables(F) ==
    CASE F = "ANCStepper.mode" -> <<ANCStepper_mode_mapping>>
      [] F = "PowerOn.poweron_status_clear" ->
           <<PowerOn_poweron_status_clear_mapping>>
      [] F = "DCPowerSource.output.function" -> <<DCPowerSource_function_mapping>>
      [] F = "SCPIDCPowerSource.function" -> <<SCPIDCPowerSource_function_mapping>>
      [] F = "SCPIDCPowerSource.output" -> <<SCPIDCPowerSource_output_mapping>>
      [] F = "KeysightE3631A.output.trigger.source" ->
           <<KeysightE3631A_trigger_source_mapping>>
      [] F = "YokogawaGS200.output.mode" -> <<GS200_mode_mapping>>
      [] F = "Yokogawa7651.output.function" -> Y7651_function_mapping
      [] F = "Yokogawa7651.output.enabled" -> <<Y7651_enabled_mapping>>
      [] F = "Yokogawa7651.output.voltage_range" -> <<Y7651_voltage_range_mapping>>
      [] F = "Yokogawa7651.output.current_range" -> <<Y7651_current_range_mapping>>
      [] F = "BE2100.voltage_filter" -> <<BE2100_voltage_filter_mapping>>
      [] F = "BE2100.trigger.mode" -> <<BE2100_trigger_mode_mapping>>

\* The features whose mapping gives the wire side as numbers.
NumberTokens(F) ==
    F \in {"SCPIDCPowerSource.output", "Yokogawa7651.output.enabled",
           "Yokogawa7651.output.voltage_range",
           "Yokogawa7651.output.current_range", "BE2100.voltage_filter"}

\* Encoding: the user value is looked up in the (first) table; the token is
\* put into the command as text.
MappingEncode(F, v) ==
    IF NumberTokens(F) THEN PyStr(MappingTables(F)[1][v])
    ELSE MappingTables(F)[1][v]

\* Decoding of the text the instrument answered: with one table, the user
\* values the table sends to that token; with two, the second table is
\* looked up.  The result is the set of the user values it may yield (empty:
\* the text cannot be decoded).
MappingDecode(F, text) ==
    IF Len(MappingTables(F)) = 2
    THEN {MappingTables(F)[2][t] : t \in {u \in DOMAIN MappingTables(F)[2] : u = text}}
    ELSE {k \in DOMAIN MappingTables(F)[1] : MappingEncode(F, k) = text}

\* ---- limits resolvers ----------------------------------------------------
\* be2100.py voltage_saturation: vs.low and vs.high are both declared with
\* limits=(-12, 0), without step.
BE2100_voltage_saturation_low_limits == [low |-> Volt(-12), high |-> Volt(0)]

BE2100_voltage_saturation_high_limits == [low |-> Volt(-12), high |-> Volt(0)]

Accepts(lim, v) == lim.low <= v /\ v <= lim.high

Max(a, b) == IF a >= b THEN a ELSE b

Min(a, b) == IF a <= b THEN a ELSE b

\* be2100.py _limits_voltage, from the values read of voltage_range,
\* voltage_saturation.low and voltage_saturation.high (1.2e-6 V is 12 units).
BE2100_limits_voltage(rng, sat_low, sat_high) ==
    FloatLimitsValidator(Max(-rng, sat_low), Min(rng, sat_high),
                         IF rng = mV(1200) THEN 12 ELSE 120)

\* Bound of the saturation levels tried, in volts below zero.
MaxSat == 12

SatLevels == {Volt(-k) : k \in 0..MaxSat} \cup {mV(-1200)}

\* Texts an instrument can answer besides the tokens of the set table.
AnswerTexts == {"V", "A", "1", "0", "VOLT", "gnd", "?"}

DInit ==
    /\ drv = "None"
    /\ caching_allowed = FALSE
    /\ cache = <<>>
    /\ limCache = <<>>
    /\ dev = <<>>
    /\ last = NoOp
    /\ AIdle
    /\ CIdle

dfixed == <<drv, caching_allowed, cache, limCache, dev, last, th, lock, inbuf,
            ncalls, output, objs, ref>>

\* token = encode(v), for a user value of the mapping's domain
DEncode ==
    \E F \in MappedFeatures : \E v \in DOMAIN MappingTables(F)[1] :
        /\ call' = [fn |-> "encode", feat |-> F, args |-> <<v>>,
                    tok |-> <<MappingEncode(F, v)>>, out |-> <<>>]
        /\ UNCHANGED dfixed

\* decode(token), of the token just produced
DDecode ==
    /\ call.fn = "encode"
    /\ call' = [call EXCEPT !.fn = "decode",
                            !.out = <<MappingDecode(call.feat, call.tok[1])>>]
    /\ UNCHANGED dfixed

\* decode(text), of a text the instrument answered
DAnswer ==
    \E F \in MappedFeatures : \E text \in AnswerTexts :
        /\ call' = [fn |-> "answer", feat |-> F, args |-> <<>>,
                    tok |-> <<text>>, out |-> <<MappingDecode(F, text)>>]
        /\ UNCHANGED dfixed

\* validator = card._limits_voltage(), for values of its inputs that their
\* own declarations accept
DLimitsBE2100 ==
    \E rng \in BE2100_voltage_range_values :
    \E lo \in {v \in SatLevels : Accepts(BE2100_voltage_saturation_low_limits, v)} :
    \E hi \in {v \in SatLevels : Accepts(BE2100_voltage_saturation_high_limits, v)} :
        /\ call' = [fn |-> "limits", feat |-> "BE2100.voltage",
                    args |-> <<rng, lo, hi>>, tok |-> <<>>,
                    out |-> <<BE2100_limits_voltage(rng, lo, hi)>>]
        /\ UNCHANGED dfixed

\* validator = channel._limits_voltage(), for each output of the E3631A
DLimitsE3631A ==
    \E id \in E3631A_output :
        /\ call' = [fn |-> "limits", feat |-> "KeysightE3631A.output.voltage",
                    args |-> <<id>>, tok |-> <<>>,
                    out |-> <<E3631A_limits_voltage(id)>>]
        /\ UNCHANGED dfixed

DNext == DEncode \/ DDecode \/ DAnswer \/ DLimitsBE2100 \/ DLimitsE3631A

SpecDecl == DInit /\ [][DNext]_vars

\* The round trip of the value last encoded has been made.
RoundTrip(F) == call.fn = "decode" /\ call.feat = F

\* C14 (as stated): for every declared mapping, the base DCPowerSource
\* output.function and the two tables of Yokogawa7651 output.function
\* included, decoding the token that encoding v produced yields v.
C14_Original ==
    \A F \in MappedFeatures : RoundTrip(F) => call.out = <<{call.args[1]}>>

\* C14 (amended): decoding the token that encoding v produced yields v for
\* every feature declared with one mapping table, a getter and a setter.
\* For Yokogawa7651 output.function the token sent ('1', '5') is not one the
\* get table knows, which reads 'V' as Voltage and 'A' as Current; for the
\* base DCPowerSource output.function both values encode to '' and decoding
\* cannot tell them apart.
C14_RoundTrip ==
    /\ \A F \in MappedFeatures \ {"DCPowerSource.output.function",
                                  "Yokogawa7651.output.function"} :
           RoundTrip(F) => call.out = <<{call.args[1]}>>
    /\ RoundTrip("Yokogawa7651.output.function") =>
           /\ call.tok \in {<<"1">>, <<"5">>}
           /\ call.out = <<{}>>
    /\ (call.fn = "answer" /\ call.feat = "Yokogawa7651.output.function") =>
           call.out = IF call.tok = <<"V">> THEN <<{"Voltage"}>>
                      ELSE IF call.tok = <<"A">> THEN <<{"Current"}>>
                      ELSE <<{}>>
    /\ RoundTrip("DCPowerSource.output.function") =>
           /\ call.tok = <<"">>
           /\ call.out = <<{"Voltage", "Current"}>>
    /\ RoundTrip("PowerOn.poweron_status_clear") =>
           call.tok = IF call.args = <<"True">> THEN <<"1">> ELSE <<"0">>
    /\ RoundTrip("ANCStepper.mode") => call.tok \in {<<"gnd">>, <<"stp">>}

C14_Witness ==
    /\ RoundTrip("PowerOn.poweron_status_clear")
    /\ call.args = <<"False">>
    /\ call.tok = <<"0">>
    /\ call.out = <<{"False"}>>

\* C15: every validator a resolver builds has low <= high and step > 0; for
\* BE2100._limits_voltage, whatever the voltage_range of (1.2, 12) and the
\* voltage_saturation.low and .high their declared limits accept.
C15_ValidatorWellFormed ==
    call.fn = "limits" =>
        /\ call.out[1].low <= call.out[1].high
        /\ call.out[1].step > 0

(***************************************************************************)
(* The protection subsystems of the Yokogawa sources: high_level and the   *)
(* low_level linked to it (model_gs200.py, model_7651.py)                  *)
(***************************************************************************)

Protections == {"ovp", "ocp"}

HighLevel(S) == S \o ".high_level"

LowLevel(S) == S \o ".low_level"

\* limits= of ovp.high_level and ocp.high_level
Protection_high_level_limits(D, S) ==
    CASE S = "ovp"   -> FloatLimitsValidator(Volt(1), Volt(30), Volt(1))
      [] D = "GS200" -> FloatLimitsValidator(mV(1), mV(200), mV(1))
      [] OTHER       -> FloatLimitsValidator(mV(5), mV(120), mV(1))

\* getter= and setter= of high_level; on the 7651 the getter is True and no
\* _get_high_level is defined.
Protection_high_level_getter(D, S) ==
    CASE D = "GS200" /\ S = "ovp" -> ":SOUR:PROT:VOLT?"
      [] D = "GS200" /\ S = "ocp" -> ":SOUR:PROT:CURR?"
      [] OTHER -> ""

Protection_high_level_setter(D, S) ==
    CASE D = "GS200" /\ S = "ovp" -> ":SOUR:PROT:VOLT {}"
      [] D = "GS200" /\ S = "ocp" -> ":SOUR:PROT:CURR {}"
      [] D = "Y7651" /\ S = "ovp" -> "LV{}E"
      [] OTHER -> "LA{}E"

\* low_level = LinkedTo('high_level', relation=(get, set)).
\* ovp: 'value = -driver.high_level'   and 'driver.high_level = value'
\* ocp: 'value = driver.high_level'    and 'driver.high_level = -value'
low_level_get_relation(S, high_level) == IF S = "ovp" THEN -high_level ELSE high_level

low_level_set_relation(S, value) == IF S = "ovp" THEN value ELSE -value

\* The values the caller sets.
ProtectionInputs(S) ==
    IF S = "ovp" THEN {Volt(5), -Volt(5), Volt(31)} ELSE {mV(100), -mV(100)}

PInit ==
    /\ drv \in {"GS200", "Y7651"}
    /\ caching_allowed \in BOOLEAN
    /\ cache = [f \in {HighLevel(S) : S \in Protections} \cup
                      {LowLevel(S) : S \in Protections} |-> NoVal]
    /\ limCache = <<>>
    /\ dev = [S \in Protections |-> IF S = "ovp" THEN Volt(10) ELSE mV(50)]
    /\ last = NoOp
    /\ AIdle
    /\ CIdle

\* 4.1 for high_level.
HighLevelRead(D, S, c, dv) ==
    IF CacheHit(c, HighLevel(S)) THEN Res(c[HighLevel(S)], "", c, <<>>)
    ELSE IF Protection_high_level_getter(D, S) = ""
    THEN Res(NoVal, "NotImplementedError", c, <<>>)
    ELSE Stored(HighLevel(S),
                Res(<<dv[S]>>, "", c, <<Cmd(Protection_high_level_getter(D, S), "", <<>>)>>))

\* 4.1 for low_level: the get relation applied to the high_level read.
LowLevelFrom(S, r) ==
    IF r.err # "" THEN r
    ELSE Stored(LowLevel(S), [r EXCEPT !.val = <<low_level_get_relation(S, r.val[1])>>])

LowLevelRead(D, S, c, dv) ==
    IF CacheHit(c, LowLevel(S)) THEN Res(c[LowLevel(S)], "", c, <<>>)
    ELSE LowLevelFrom(S, HighLevelRead(D, S, c, dv))

\* value = output.<S>.high_level
PGetHigh ==
    \E S \in Protections :
        /\ cache' = HighLevelRead(drv, S, cache, dev).cache
        /\ last' = OpRecord("get", HighLevel(S), NoVal,
                            HighLevelRead(drv, S, cache, dev).val,
                            HighLevelRead(drv, S, cache, dev).err,
                            HighLevelRead(drv, S, cache, dev).cmds, "none",
                            cache[HighLevel(S)])
        /\ UNCHANGED dev
        /\ UNCHANGED kfixed

\* value = output.<S>.low_level
PGetLow ==
    \E S \in Protections :
        /\ cache' = LowLevelRead(drv, S, cache, dev).cache
        /\ last' = OpRecord("get", LowLevel(S), NoVal,
                            LowLevelRead(drv, S, cache, dev).val,
                            LowLevelRead(drv, S, cache, dev).err,
                            LowLevelRead(drv, S, cache, dev).cmds, "none",
                            cache[LowLevel(S)])
        /\ UNCHANGED dev
        /\ UNCHANGED kfixed

\* 4.2 for high_level set to hi, on behalf of the feature f set to v (f is
\* high_level itself, or the low_level whose set relation gave hi).
HighLevelWritten(S, f, v, hi, code) ==
    IF ~Validate(Protection_high_level_limits(drv, S), hi)
    THEN /\ last' = OpRecord("set", f, <<v>>, NoVal, "OutOfRangeError", <<>>, "none",
                             cache[f])
         /\ UNCHANGED <<cache, dev>>
    ELSE /\ dev' = IF code = 0 THEN [dev EXCEPT ![S] = hi] ELSE dev
         /\ last' = OpRecord("set", f, <<v>>, NoVal,
                             IF default_check_operation(drv, code) THEN ""
                             ELSE "DeviceError",
                             <<Cmd(Protection_high_level_setter(drv, S), "", <<hi>>)>>,
                             "none", cache[f])
         /\ cache' = IF default_check_operation(drv, code) /\ caching_allowed
                     THEN [cache EXCEPT ![HighLevel(S)] = <<hi>>, ![f] = <<v>>]
                     ELSE cache

\* output.<S>.high_level = v
PSetHigh ==
    \E S \in Protections : \E v \in ProtectionInputs(S) : \E code \in {0, 1} :
        /\ HighLevelWritten(S, HighLevel(S), v, v, code)
        /\ UNCHANGED kfixed

\* output.<S>.low_level = v
PSetLow ==
    \E S \in Protections : \E v \in ProtectionInputs(S) : \E code \in {0, 1} :
        /\ HighLevelWritten(S, LowLevel(S), v, low_level_set_relation(S, v), code)
        /\ UNCHANGED kfixed

\* output.<S>.clear_cache()
PClearCache ==
    /\ cache' = [f \in DOMAIN cache |-> NoVal]
    /\ last' = OpRecord("clear_cache", "", NoVal, NoVal, "", <<>>, "none", NoVal)
    /\ UNCHANGED dev
    /\ UNCHANGED kfixed

PNext == PGetHigh \/ PGetLow \/ PSetHigh \/ PSetLow \/ PClearCache

SpecProtection == PInit /\ [][PNext]_vars

\* C27: for the linked levels of ovp and ocp, a get of low_level that comes
\* right after a successful set of low_level to v returns v, and the value
\* that set wrote to high_level lies within the declared limits of
\* high_level.
C27_LinkedRoundTrip ==
    \A S \in Protections :
        /\ (last.op = "get" /\ last.feat = LowLevel(S) /\ last.after = LowLevel(S))
             => /\ last.err = ""
                /\ last.val = last.afterArg
        /\ (last.op = "set" /\ last.feat = LowLevel(S) /\ last.err = "")
             => /\ last.cmds[1][3][1] >= (IF S = "ovp" THEN Volt(1)
                                          ELSE IF drv = "GS200" THEN mV(1) ELSE mV(5))
                /\ last.cmds[1][3][1] <= (IF S = "ovp" THEN Volt(30)
                                          ELSE IF drv = "GS200" THEN mV(200) ELSE mV(120))

(***************************************************************************)
(* The Yokogawa 7651 shared by threads: the 'OS' status exchange           *)
(* (model_7651.py _get_range, _get_limit)                                  *)
(***************************************************************************)

\* The four lines the 7651 sends in answer to 'OS': model and software
\* version; function, range, output data; program parameters; limits.
Y7651_OS_lines == <<"model", "range", "parameters", "limits">>

Y7651_OS_response(T) ==
    [i \in 1..Len(Y7651_OS_lines) |-> Line(Y7651_OS_lines[i], T, "OS")]

\* The read whose line each of the two methods returns.
Y7651_OS_kept(op) == IF op = "_get_range" THEN 2 ELSE 4

YInit ==
    /\ drv = "Y7651"
    /\ caching_allowed = FALSE
    /\ cache = [f \in Y7651_Features |-> NoVal]
    /\ limCache = [n \in LimitNames("Y7651") |-> NoVal]
    /\ dev = [function |-> "1", level |-> 0, range |-> Volt(1)]
    /\ last = NoOp
    /\ AIdle
    /\ CIdle

CallGetRange(T) == Call(T, "_get_range", "os_write", "OS", "end", FALSE, 0)

CallGetLimit(T) == Call(T, "_get_limit", "os_write", "OS", "end", FALSE, 0)

\* self.write('OS'): neither method takes the lock.
OsWrite(T) ==
    /\ th[T].pc = "os_write"
    /\ inbuf' = inbuf \o Y7651_OS_response(T)
    /\ th' = [th EXCEPT ![T].pc = "os_read", ![T].answer = <<>>, ![T].reads = 0,
                        ![T].own = TRUE, ![T].log = Logged(@, th[T].cmd)]
    /\ UNCHANGED <<lock, ncalls, cache>>
    /\ UNCHANGED fixed

\* One self.read(); after the fourth one the method returns the line of the
\* read it kept.
OsRead(T) ==
    /\ th[T].pc = "os_read"
    /\ inbuf # <<>>
    /\ inbuf' = Tail(inbuf)
    /\ th' = [th EXCEPT
                ![T].answer = Append(@, Head(inbuf)),
                ![T].reads = @ + 1,
                ![T].own = @ /\ Answers(Head(inbuf), T, "OS"),
                ![T].log = Logged(@, "read"),
                ![T].pc = IF th[T].reads + 1 = Len(Y7651_OS_lines) THEN "done"
                          ELSE "os_read",
                ![T].res = IF th[T].reads + 1 = Len(Y7651_OS_lines)
                           THEN <<Append(th[T].answer, Head(inbuf))[Y7651_OS_kept(th[T].op)]>>
                           ELSE @]
    /\ UNCHANGED <<lock, ncalls, cache>>
    /\ UNCHANGED fixed

Y7651_get_range_exchange(T) == CallGetRange(T) \/ OsWrite(T) \/ OsRead(T)

Y7651_get_limit(T) == CallGetLimit(T) \/ OsWrite(T) \/ OsRead(T)

YNext ==
    \/ \E T \in Threads : Y7651_get_range_exchange(T)
    \/ \E T \in Threads : Y7651_get_limit(T)

SpecOS == YInit /\ [][YNext]_vars

\* C28: the 'OS' write of _get_range or _get_limit and the four reads that
\* follow are one critical section: every line a thread reads between its
\* write and its fourth read answers its own 'OS', and the line it returns
\* (the second for the range, the fourth for the limits) is the line of its
\* own response.
C28_OSExchangeAtomic ==
    \A T \in Threads :
        /\ (th[T].op \in {"_get_range", "_get_limit"} /\ th[T].pc \in {"os_read", "done"})
             => \A i \in 1..Len(th[T].answer) :
                    th[T].answer[i] = Line(Y7651_OS_lines[i], T, "OS")
        /\ (th[T].op = "_get_range" /\ Over(T)) => th[T].res = <<Line("range", T, "OS")>>
        /\ (th[T].op = "_get_limit" /\ Over(T)) => th[T].res = <<Line("limits", T, "OS")>>

(***************************************************************************)
(* A BN100 card or a Keysight output shared by threads: a set and the      *)
(* check of its operation (bn100.py, model_E3631A.py, model_E363XA.py)     *)
(***************************************************************************)

\* The answer to 'SYST:ERR?' when the error queue is empty: '0,No error'.
NoError == [code |-> 0, th |-> 0]

\* The entry the instrument queues when the set of thread T is in error, and
\* the queue after it.
Queued(errors, T, code) ==
    IF code = 0 THEN errors ELSE Append(errors, [code |-> code, th |-> T])

\* read_error: code, msg = self.query('SYST:ERR?').split(','): the instrument
\* hands out the first entry of its queue and drops it.
read_error(errors) ==
    IF errors = <<>> THEN [entry |-> NoError, errors |-> <<>>]
    ELSE [entry |-> Head(errors), errors |-> Tail(errors)]

QInit ==
    /\ drv \in {"BE2100", "E3631A"}
    /\ caching_allowed = FALSE
    /\ cache = <<>>
    /\ limCache = <<>>
    /\ dev = [errors |-> <<>>]
    /\ last = NoOp
    /\ AIdle
    /\ CIdle

qfixed == <<drv, caching_allowed, cache, limCache, last, lock, inbuf, cvars>>

\* A thread starts a set the instrument will accept (0) or find in error (1).
CallSet(T) ==
    \E code \in {0, 1} :
        /\ th[T].pc \in {"idle", "done"}
        /\ ncalls < MaxCalls
        /\ ncalls' = ncalls + 1
        /\ th' = [th EXCEPT ![T] = [IdleThread EXCEPT !.op = "set", !.pc = "ss_send",
                                      !.cmd = IF drv = "BE2100" THEN "VOLT:RANG {}"
                                              ELSE "VOLT {}",
                                      !.args = <<code>>]]
        /\ UNCHANGED dev
        /\ UNCHANGED qfixed

\* 4.2 step 5: the lock is acquired, the command is sent, the lock is
\* released.
SsSend(T) ==
    /\ th[T].pc = "ss_send"
    /\ CanAcquire(T)
    /\ dev' = [dev EXCEPT !.errors = Queued(@, T, th[T].args[1])]
    /\ th' = [th EXCEPT ![T].pc = "ss_check", ![T].log = Logged(@, th[T].cmd)]
    /\ UNCHANGED ncalls
    /\ UNCHANGED qfixed

\* 4.2 step 6: default_check_operation calls read_error, whose query is one
\* exchange.
SsCheck(T) ==
    /\ th[T].pc = "ss_check"
    /\ CanAcquire(T)
    /\ dev' = [dev EXCEPT !.errors = read_error(@).errors]
    /\ th' = [th EXCEPT ![T].pc = "done",
                        ![T].res = <<read_error(dev.errors).entry>>,
                        ![T].err = IF default_check_operation(
                                         drv, read_error(dev.errors).entry.code)
                                   THEN "" ELSE "DeviceError",
                        ![T].log = Logged(@, "SYST:ERR?")]
    /\ UNCHANGED ncalls
    /\ UNCHANGED qfixed

checked_set(T) == CallSet(T) \/ SsSend(T) \/ SsCheck(T)

QNext == \E T \in Threads : checked_set(T)

SpecCheck == QInit /\ [][QNext]_vars

\* C29: the error entry that default_check_operation reads after the set of a
\* thread belongs to that set: it is the entry the set caused, or 'No error'
\* when the set caused none; and no command of another thread is sent
\* between the command of the set and its 'SYST:ERR?'.
C29_ErrorBelongsToSet ==
    [][\A T \in Threads :
         /\ (th'[T].op = "set" /\ th'[T].pc = "done")
               => th'[T].res = <<IF th'[T].args = <<0>> THEN [code |-> 0, th |-> 0]
                                 ELSE [code |-> 1, th |-> T]>>
         /\ (th[T].pc = "ss_check" /\ th'[T].pc = "ss_check")
               => \A U \in Threads \ {T} : Len(th'[U].log) = Len(th[U].log)
      ]_vars

====
